---- MODULE Spec2Model ----
(***************************************************************************)
(* Guidance core of ArduPlane/Attitude.cpp (TLAB controllers).             *)
(*                                                                         *)
(* Numbers.  A float is modelled in fixed point: the integer n stands for  *)
(* n/Scale.  Lengths are metres, angles radians, times seconds.  The three *)
(* IEEE special values a division by zero produces are the integers PInf,  *)
(* NInf and NaN; every comparison with NaN is false (FLt, FGe).            *)
(* Locations are points of a local metre grid (lat = north, lng = east).   *)
(***************************************************************************)
EXTENDS Integers, Sequences, FiniteSets, TLC

\* ---------------------------------------------------------------- bounds
MaxS == 6000
MaxIZeta == 8
MaxSCalc == 7100
MaxTheta == 800
MaxErrCount == 3

\* ------------------------------------------------------- fixed-point floats
Scale == 100
M_PI == 314
M_4PI == 1257
Tenth == 10
One == 100
PInf ==  1000000000
NInf == -1000000000
NaN  == -1000000001

IsFinite(a) == a # NaN /\ a # PInf /\ a # NInf
FLt(a, b) == a # NaN /\ b # NaN /\ a < b
FGe(a, b) == a # NaN /\ b # NaN /\ a >= b
FAbs(a) == IF a = NaN THEN NaN ELSE IF a < 0 THEN -a ELSE a

\* quotient rounded toward zero
TDiv(a, b) == IF (a >= 0) = (b > 0) THEN (IF a >= 0 THEN a ELSE -a) \div (IF b > 0 THEN b ELSE -b)
              ELSE -((IF a >= 0 THEN a ELSE -a) \div (IF b > 0 THEN b ELSE -b))

\* a/b of two floats: x/0 is +-inf, 0/0 and NaN/x are NaN
FDiv(a, b) ==
    IF a = NaN THEN NaN
    ELSE IF b = 0 THEN (IF a > 0 THEN PInf ELSE IF a < 0 THEN NInf ELSE NaN)
    ELSE TDiv(a * Scale, b)

\* a*b of two finite floats
FMul(a, b) == TDiv(a * b, Scale)

RECURSIVE SqrtSearch(_, _, _)
SqrtSearch(n, lo, hi) ==
    IF lo >= hi THEN lo
    ELSE LET mid == (lo + hi + 1) \div 2
         IN IF mid * mid <= n THEN SqrtSearch(n, mid, hi) ELSE SqrtSearch(n, lo, mid - 1)

\* floor of the square root of an integer
ISqrt(n) == SqrtSearch(n, 0, 40000)

\* sinf on [0, pi] (Bhaskara's rational approximation, exact at 0, pi/6, pi/2, 5pi/6, pi)
SinHalf(y) == (16 * y * (M_PI - y) * Scale) \div (5 * M_PI * M_PI - 4 * y * (M_PI - y))

sinf(x) == LET m == x % (2 * M_PI)
           IN IF m <= M_PI THEN SinHalf(m) ELSE -SinHalf(m - M_PI)

cosf(x) == sinf(x + M_PI \div 2)

\* wrap an angle to (-pi, pi]
wrap_PI(x) == LET m == x % (2 * M_PI)
              IN IF m > M_PI THEN m - 2 * M_PI ELSE m

\* ------------------------------------------------------------- geometry
Loc(lat, lng) == [lat |-> lat, lng |-> lng]
Vec(x, y) == [x |-> x, y |-> y]

\* Vector2f(north, east) from a to b, in metres
location_diff(a, b) == Vec((b.lat - a.lat) * Scale, (b.lng - a.lng) * Scale)

\* distance between two locations, in metres
get_distance(a, b) ==
    ISqrt(((b.lat - a.lat) * (b.lat - a.lat) + (b.lng - a.lng) * (b.lng - a.lng)) * Scale * Scale)

\* the "Px = P.y; Py = P.x; P.x = Px; P.y = Py" exchange
SwapXY(v) == Vec(v.y, v.x)

\* AP_HAL::micros64(): a free-running unsigned counter of microseconds.  It is
\* kept modulo a short period; the unsigned difference t_now - t_prev is then
\* the elapsed time of every step shorter than the period.
ClockModulus == 2 * 1000000

\* ------------------------------------------------------- input domains
LocA == Loc(0, 0)
LocB == Loc(30, 40)
LocC == Loc(0, 50)
WPLocs == {LocA, LocB}
\* 2 and 3 are the two indices the generator tests for (i_now_CMD == 2,
\* i_now_CMD == 3); each also stands for "any other index" of the other test.
CmdIdx == {2, 3}
FlightPlans == 0 .. 5
Radii == {0, 100}
Dzetas == {0, 210}
ClockSteps == {0, 1000000}
GroundSpeeds == {3000}
HeadingErrors == {0, M_PI}
AlongTrackErrors == {0}

VARIABLES
    \* configuration block g.TPARAM_*
    TPARAM,
    \* mission / sensors
    clock, TLAB_CMD_index, prev_WP_loc, next_WP_loc,
    \* 2D trace controller and path generator
    yet_init, Flight_Plan, Path_Origin, Path_Mode, s, zeta, P0, P1, dist_WPs,
    i_now_CMD, change_path_flag, i_zeta, s_calc, t_now, Fx,
    \* line/circle supervisor
    init_TLAB_Controller_flag, TLAB_Control_flag, calc_GCRS_flag, Combine_Mode_flag,
    TLAB_WP_nav_flag, alternate_orbit_flag, change_to_circle_flag, change_y, orbit_num,
    init_TLAB_Controller_AUTO_flag, theta, prev_theta, Int_theta, state_UAV_x, state_UAV_y,
    \* observation of the last supervisor step: kind ("none", "init", "mission",
    \* "run"), msgs
    \* (the texts passed to gcs_send_text_fmt) and law (the controller whose
    \* value was returned)
    sup_obs,
    \* observation of the last cycle: kind ("none", "init", "run"), changed (the
    \* waypoint index differed from the previous cycle's), switched, div0, hung
    \* (see TLAB_generate_2D_Path) and s_gen (s when the generator returned)
    obs,
    \* steering_control.rudder [cdeg]
    rudder,
    \* altitude/throttle controller: Th holds the members of TLAB_Throttle_Controller,
    \* throttle the value calc_throttle passes to channel_throttle->set_servo_out, th_obs
    \* the observation of the last cycle
    Th, throttle, th_obs,
    \* membership functions: the inputs and the weights of the last evaluation
    mem,
    \* observation of the last evaluation of the path geometry ("path", "hung") or of the
    \* lookahead guidance law ("look")
    geo

pathVars == <<yet_init, Flight_Plan, Path_Origin, Path_Mode, s, zeta, P0, P1, dist_WPs,
              i_now_CMD, change_path_flag, i_zeta, s_calc, t_now, Fx>>
envVars == <<clock, TLAB_CMD_index, prev_WP_loc, next_WP_loc>>
supVars == <<init_TLAB_Controller_flag, TLAB_Control_flag, calc_GCRS_flag, Combine_Mode_flag,
             TLAB_WP_nav_flag, alternate_orbit_flag, change_to_circle_flag, change_y, orbit_num,
             init_TLAB_Controller_AUTO_flag, theta, prev_theta, Int_theta, state_UAV_x,
             state_UAV_y, sup_obs>>
yawVars == <<rudder>>
thVars == <<Th, throttle, th_obs>>
memVars == <<mem>>
fnVars == <<geo>>
restVars == <<thVars, memVars, fnVars>>
vars == <<TPARAM, envVars, pathVars, obs, supVars, yawVars, restVars>>

\* ------------------------------------------------- TLAB_generate_2D_Path
\* The generator works on a record st of the members it reads and writes
\*   Path_Mode, s, zeta, P0, P1, dist_WPs, change_path_flag, i_zeta, s_calc
\* extended by three observations of the call: switched (a primitive switch
\* was performed), div0 (a quotient with a zero divisor was evaluated) and hung
\* (the call did not return).  cmd holds i_prev (i_prev_CMD), i_now (the new
\* i_now_CMD), prev, next (prev_WP_loc, next_WP_loc) and origin (Path_Origin).

WP0 == Loc(TPARAM.Path_Origin_lat, TPARAM.Path_Origin_lng)

\* zeta < 0.1 && i_now_CMD != i_prev_CMD
WPSetEarly(st, cmd) == FLt(st.zeta, Tenth) /\ cmd.i_now # cmd.i_prev

\* variant: the threshold of the terminal test used for arming
WPSetLate_AtOne(st, cmd) == FGe(st.zeta, One) /\ cmd.i_now # cmd.i_prev

\* zeta >= 0.1 && i_now_CMD != i_prev_CMD
WPSetLate(st, cmd) == FGe(st.zeta, Tenth) /\ cmd.i_now # cmd.i_prev

\* variant: the pending-switch flag is not consulted
SwitchReady_NoFlag(st, terminal) == FGe(st.zeta, terminal)

\* change_path_flag == true && zeta >= terminal
SwitchReady(st, terminal) == st.change_path_flag /\ FGe(st.zeta, terminal)

\* variant: P1 is left as it was
DefineEndpoints_KeepP1(st, cmd, from, to) ==
    [st EXCEPT !.dist_WPs = get_distance(from, to),
               !.P0 = SwapXY(location_diff(cmd.origin, from))]

\* dist_WPs, P0 and P1 taken from the pair (from, to), x and y exchanged
DefineEndpoints(st, cmd, from, to) ==
    [st EXCEPT !.dist_WPs = get_distance(from, to),
               !.P0 = SwapXY(location_diff(cmd.origin, from)),
               !.P1 = SwapXY(location_diff(cmd.origin, to))]

\* change_path_flag = true
ArmSwitch(st) == [st EXCEPT !.change_path_flag = TRUE]

\* s = 0; change_path_flag = false; endpoints from (prev_WP_loc, next_WP_loc)
SwitchPrimitive(st, cmd) ==
    DefineEndpoints([st EXCEPT !.s = 0, !.change_path_flag = FALSE, !.switched = TRUE],
                    cmd, cmd.prev, cmd.next)

\* the two branches "waypoint set early / waypoint set late" of a straight segment
StraightWPChange(st, cmd, from) ==
    IF WPSetEarly(st, cmd) THEN DefineEndpoints(st, cmd, from, cmd.next)
    ELSE IF WPSetLate(st, cmd) THEN ArmSwitch(st)
    ELSE st

\* case 0 of switch (Flight_Plan)
FlightPlan0(st, cmd) ==
    LET a == StraightWPChange([st EXCEPT !.Path_Mode = 0], cmd, cmd.prev)
    IN IF SwitchReady(a, One)
       THEN LET b == [a EXCEPT !.s = 0, !.zeta = 0, !.change_path_flag = FALSE, !.switched = TRUE]
            IN IF cmd.i_now = 2 THEN DefineEndpoints(b, cmd, WP0, cmd.next)
               ELSE DefineEndpoints(b, cmd, cmd.prev, cmd.next)
       ELSE a

\* variant: the arc is left for a straight segment after a full turn
ArcHold_Exit(st) ==
    IF FGe(st.zeta, 2 * M_PI) THEN [st EXCEPT !.Path_Mode = 0, !.s = 0, !.switched = TRUE] ELSE st

\* if (Path_Mode == 5) / if (Path_Mode == 4): do nothing
ArcHold(st) == st

\* cases 1 and 4 of switch (Flight_Plan): straight segment, then the arc arcMode
FlightPlanArc(st, cmd, arcMode) ==
    LET a == IF st.Path_Mode = 0
             THEN LET b == StraightWPChange(st, cmd, WP0)
                  IN IF SwitchReady(b, One)
                     THEN [SwitchPrimitive(b, cmd) EXCEPT !.Path_Mode = arcMode]
                     ELSE b
             ELSE st
    IN IF a.Path_Mode = arcMode THEN ArcHold(a) ELSE a

\* the block "if (Path_Mode == 6)" / "if (Path_Mode == 3)" of a Lissajous primitive
LissajousBlock(st, cmd, terminal) ==
    LET a == IF WPSetLate(st, cmd) THEN ArmSwitch(st) ELSE st
    IN IF SwitchReady(a, terminal)
       THEN [SwitchPrimitive(a, cmd) EXCEPT !.Path_Mode = 0]
       ELSE a

\* case 2 of switch (Flight_Plan): straight segments and the figure eight
FlightPlan2(st, cmd) ==
    LET a == IF st.Path_Mode = 0
             THEN LET b == StraightWPChange(st, cmd, cmd.prev)
                  IN IF SwitchReady(b, One)
                     THEN LET c == SwitchPrimitive(b, cmd)
                          IN IF cmd.i_now = 3 THEN [c EXCEPT !.Path_Mode = 6] ELSE c
                     ELSE b
             ELSE st
    IN IF a.Path_Mode = 6 THEN LissajousBlock(a, cmd, M_4PI) ELSE a

\* case 3 of switch (Flight_Plan): straight segments and the Lissajous curve
FlightPlan3(st, cmd) ==
    LET a == IF st.Path_Mode = 0
             THEN LET b == StraightWPChange(st, cmd, cmd.prev)
                  IN IF SwitchReady(b, One)
                     THEN LET c == SwitchPrimitive(b, cmd)
                          IN IF cmd.i_now = 3
                             THEN [c EXCEPT !.P1 = Vec(c.P1.x - TPARAM.r, c.P1.y - TPARAM.r),
                                            !.Path_Mode = 3]
                             ELSE c
                     ELSE b
             ELSE st
    IN IF a.Path_Mode = 3 THEN LissajousBlock(a, cmd, M_PI) ELSE a

\* variant: flight plan 1 flies the left-turn arc of flight plan 4
SelectPrimitive_LeftArc(st, cmd, plan) ==
    CASE plan = 0 -> FlightPlan0(st, cmd)
      [] plan = 1 -> FlightPlanArc(st, cmd, 4)
      [] plan = 2 -> FlightPlan2(st, cmd)
      [] plan = 3 -> FlightPlan3(st, cmd)
      [] plan = 4 -> FlightPlanArc(st, cmd, 4)
      [] OTHER -> st

\* switch (Flight_Plan)
SelectPrimitive(st, cmd, plan) ==
    CASE plan = 0 -> FlightPlan0(st, cmd)
      [] plan = 1 -> FlightPlanArc(st, cmd, 5)
      [] plan = 2 -> FlightPlan2(st, cmd)
      [] plan = 3 -> FlightPlan3(st, cmd)
      [] plan = 4 -> FlightPlanArc(st, cmd, 4)
      [] OTHER -> st

\* dPdzeta at grid index i
dPdzeta(i) ==
    LET a == sinf(5 * TPARAM.dzeta * i)
        b == sinf(6 * TPARAM.dzeta * i)
    IN FMul(TPARAM.r, ISqrt(25 * a * a + 36 * b * b))

\* the loop can make progress: some grid index adds a positive arc length
SearchProgresses == TPARAM.r # 0 /\ TPARAM.dzeta # 0

\* while (1) { s_calc += dPdzeta*dzeta; if (s_calc >= s) {zeta = i_zeta*dzeta; break;} i_zeta++; }
RECURSIVE ArcLengthSearch(_)
ArcLengthSearch(st) ==
    LET sc == st.s_calc + FMul(dPdzeta(st.i_zeta), TPARAM.dzeta)
    IN IF FGe(sc, st.s)
       THEN [st EXCEPT !.s_calc = sc, !.zeta = st.i_zeta * TPARAM.dzeta]
       ELSE IF SearchProgresses /\ st.s # NaN
            THEN ArcLengthSearch([st EXCEPT !.s_calc = sc, !.i_zeta = st.i_zeta + 1])
            ELSE [st EXCEPT !.hung = TRUE]

\* zeta = s/divisor (times factor), recording a zero divisor
ZetaQuotient(st, divisor, factor) ==
    [st EXCEPT !.zeta = LET q == FDiv(st.s, divisor)
                        IN IF IsFinite(q) THEN q * factor ELSE q,
               !.div0 = (divisor = 0)]

\* switch (Path_Mode)
EvaluatePrimitive(st) ==
    CASE st.Path_Mode = 0 -> ZetaQuotient(st, st.dist_WPs, 1)
      [] st.Path_Mode \in {1, 2} -> ZetaQuotient(st, st.dist_WPs, 2)
      [] st.Path_Mode \in {3, 6} -> ArcLengthSearch(st)
      [] st.Path_Mode \in {4, 5} -> ZetaQuotient(st, TPARAM.r, 1)
      [] OTHER -> [st EXCEPT !.zeta = 0]

TLAB_generate_2D_Path(st, cmd, plan) == EvaluatePrimitive(SelectPrimitive(st, cmd, plan))

\* ---------------------------------------------- TLAB_2D_Trace_Controller
\* configurations: every flight plan; a zero and a non-zero radius where the
\* radius is used; a zero and a non-zero integration step where the step is used
Config(plan, r, dzeta) ==
    [Flight_Plan |-> plan, r |-> r, dzeta |-> dzeta,
     Path_Origin_lat |-> LocC.lat, Path_Origin_lng |-> LocC.lng, Fx |-> <<100, 0, 0>>,
     Fchi |-> <<0, 0, 17>>, k_prop_const |-> One, v_a |-> 3000,
     control_mode |-> 0, Combine |-> 0, alternate |-> 0, calc_GCRS |-> 0,
     orbit_num |-> 0, change_y |-> 0, Bar_Control_Mode |-> 0, servo_neutral |-> 0,
     cha_pow |-> 3, pdc_height_d1_Th |-> 150, pdc_height_d2_Th |-> -150,
     height_kp0_Th |-> 100, height_kp1_Th |-> 200, height_kd0_Th |-> 50,
     height_kd1_Th |-> 100, motor_neutral_Th |-> 398, theta_a |-> 0, V_a |-> 655,
     neutral_t |-> 40, MAX_slo |-> 80, c_alt |-> 1,
     v_g_max |-> 1000, u_x_max |-> 500, kappa_max |-> 5, kappa_min |-> -5,
     chiF_max_deg |-> 178, Vg_min |-> 300, Vg_max |-> 1000, phi_max |-> 7000,
     rule_num |-> 4]

Configs ==
    {Config(p, 100, 210) : p \in FlightPlans}
    \cup {Config(p, r, 210) : p \in {1, 4}, r \in Radii}
    \cup {Config(p, r, dz) : p \in {2, 3}, r \in Radii, dz \in Dzetas}

NoObs == [kind |-> "none", changed |-> FALSE, switched |-> FALSE, div0 |-> FALSE,
          hung |-> FALSE, s_gen |-> 0]

NoSupObs == [kind |-> "none", msgs |-> <<>>, law |-> "none"]

\* the members of the controller before its first call
InitThrottle ==
    [firsttime_Th |-> TRUE, z_old |-> 0, pitch_old |-> 0, dz |-> 0, speed_pitch |-> 0,
     err_count |-> 0, prev_time_Th |-> 0, d1_Th |-> 0, d2_Th |-> 0,
     kp_Th |-> <<0, 0>>, kd_Th |-> <<0, 0>>, motor_neutral |-> 0, motor_Th_N |-> 0]

NoThObs == [kind |-> "none", first |-> FALSE, divided |-> FALSE, back |-> FALSE,
            h_div0 |-> FALSE, pd |-> 0]

NoMem == [kind |-> "none"]
NoGeo == [kind |-> "none"]

InitVars ==
    /\ clock = 0
    /\ TLAB_CMD_index = 0
    /\ prev_WP_loc = LocA
    /\ next_WP_loc \in WPLocs
    /\ yet_init = FALSE
    /\ Flight_Plan = 0
    /\ Path_Origin = Loc(0, 0)
    /\ Path_Mode = 0
    /\ s = 0
    /\ zeta = 0
    /\ P0 = Vec(0, 0)
    /\ P1 = Vec(0, 0)
    /\ dist_WPs = 0
    /\ i_now_CMD = 0
    /\ change_path_flag = FALSE
    /\ i_zeta = 0
    /\ s_calc = 0
    /\ t_now = 0
    /\ Fx = <<0, 0, 0>>
    /\ obs = NoObs
    /\ init_TLAB_Controller_flag = TRUE
    /\ TLAB_Control_flag = 0
    /\ calc_GCRS_flag = 0
    /\ Combine_Mode_flag = FALSE
    /\ TLAB_WP_nav_flag = FALSE
    /\ alternate_orbit_flag = FALSE
    /\ change_to_circle_flag = FALSE
    /\ change_y = 0
    /\ orbit_num = 0
    /\ init_TLAB_Controller_AUTO_flag = FALSE
    /\ theta = 0
    /\ prev_theta = 0
    /\ Int_theta = 0
    /\ state_UAV_x = 0
    /\ state_UAV_y = 0
    /\ sup_obs = NoSupObs
    /\ rudder = 0
    /\ Th = InitThrottle
    /\ throttle = 0
    /\ th_obs = NoThObs
    /\ mem = NoMem
    /\ geo = NoGeo

Init == TPARAM \in Configs /\ InitVars

\* what the host does between two control cycles: the clock advances and the
\* mission may move to another command, whose target becomes next_WP_loc while
\* the old target becomes prev_WP_loc
HostStep ==
    /\ \E step \in ClockSteps : clock' = (clock + step) % ClockModulus
    /\ \E idx \in CmdIdx :
          /\ TLAB_CMD_index' = idx
          /\ IF idx = TLAB_CMD_index
             THEN UNCHANGED <<prev_WP_loc, next_WP_loc>>
             ELSE prev_WP_loc' = next_WP_loc /\ next_WP_loc' \in WPLocs

init_TLAB_2D_Trace_Controller ==
    /\ Path_Origin' = prev_WP_loc'
    /\ Flight_Plan' = TPARAM.Flight_Plan
    /\ Fx' = TPARAM.Fx
    /\ Path_Mode' = 0
    /\ s' = 0
    /\ zeta' = 0
    /\ P0' = location_diff(prev_WP_loc', prev_WP_loc')
    /\ P1' = location_diff(prev_WP_loc', next_WP_loc')
    /\ dist_WPs' = get_distance(prev_WP_loc', next_WP_loc')
    /\ i_now_CMD' = 0
    /\ t_now' = clock'
    /\ UNCHANGED <<change_path_flag, i_zeta, s_calc>>

\* u_x = - sum Fx[i]*X[i]
LongitudinalInput(X) == -(FMul(Fx[1], X[1]) + FMul(Fx[2], X[2]) + FMul(Fx[3], X[3]))

\* s += (u_x + v_g*cosf(chiF))*dt; a non-finite zeta makes x_d, X, u_x and s NaN
AdvanceArcLength(sOld, z, X, v_g, dt) ==
    IF sOld = NaN \/ ~IsFinite(z) THEN NaN
    ELSE sOld + FMul(LongitudinalInput(X) + FMul(v_g, cosf(X[3])), dt)

InBounds(a) == a = NaN \/ (a >= -MaxS /\ a <= MaxS)

\* conversion of an int32_t to the int16_t parameter of constrain_int16
ToInt16(v) == ((v + 32768) % 65536) - 32768

\* constrain_int16(amt, low, high)
constrain_int16(amt, low, high) ==
    LET a == ToInt16(amt)
    IN IF a < low THEN low ELSE IF a > high THEN high ELSE a

\* variant: the controller output is stored without the limit
SteeringRudder_Unlimited(out) == ToInt16(out)

\* steering_control.rudder = constrain_int16(<controller>(), -4500, 4500)
SteeringRudder(out) == constrain_int16(out, -4500, 4500)

RECURSIVE ASinSearch(_, _, _)
ASinSearch(x, lo, hi) ==
    IF lo >= hi THEN lo
    ELSE LET mid == (lo + hi + 1) \div 2
         IN IF sinf(mid) <= x THEN ASinSearch(x, mid, hi) ELSE ASinSearch(x, lo, mid - 1)

\* asinf on [-1, 1]: the inverse of sinf on [-pi/2, pi/2]
asinf == [x \in -One .. One |-> ASinSearch(x, -(M_PI \div 2), M_PI \div 2)]

constrain_float(a, low, high) ==
    IF a = NaN THEN (low + high) \div 2 ELSE IF a < low THEN low ELSE IF a > high THEN high ELSE a

\* servo = static_cast<int32_t>(asinf(constrain_float(58/29*sinf(u), -1, 1))*100*180/M_PI):
\* the servo angle [cdeg] of the control bar angle u [rad]
ServoAngle(u) == TDiv(asinf[constrain_float(TDiv(58 * sinf(u), 29), -One, One)] * 18000, M_PI)

\* control bar angles [rad] the control laws command: none, and 30 degrees
BarAngles == {0, 52}

\* crab angles chi - psi [rad] and rates dot_chi_d of the desired course [rad/s]
CrabAngles == {0}
CourseRates == {0}

\* u_chi = - sum h_chi[i]*Fchi[i][j]*X[j], the four rules having the same gains
\* TPARAM_Fchi<i>_<j> and weights h_chi of sum 1
LateralInput(X) ==
    -(FMul(TPARAM.Fchi[1], X[1]) + FMul(TPARAM.Fchi[2], X[2]) + FMul(TPARAM.Fchi[3], X[3]))

\* u [rad] = 1/k_prop_const*v_g/v_a/cosf(chi - psi)*(-u_chi + dot_chi_d) + TPARAM_servo_neutral
ControlBarAngle(X, v_g, crab, dot_chi_d) ==
    FMul(FDiv(FDiv(FMul(FDiv(One, TPARAM.k_prop_const), v_g), TPARAM.v_a), cosf(crab)),
         -LateralInput(X) + dot_chi_d)
    + TDiv(TPARAM.servo_neutral * M_PI, 180)

\* the bar angles of a cycle: the law's value, or any value when the state vector is not
\* finite (the conversion of a non-finite float to int32_t is undefined)
BarAngleOf(sGen, z, X, v_g, crab, dot_chi_d) ==
    IF sGen = NaN \/ ~IsFinite(z) THEN BarAngles ELSE {ControlBarAngle(X, v_g, crab, dot_chi_d)}

\* first call: initialise and return 0
Cycle2DInit ==
    /\ TPARAM.Bar_Control_Mode \notin {1, 2}
    /\ ~yet_init
    /\ ~obs.hung
    /\ HostStep
    /\ init_TLAB_2D_Trace_Controller
    /\ yet_init' = TRUE
    /\ obs' = [NoObs EXCEPT !.kind = "init"]
    /\ rudder' = SteeringRudder(0)
    /\ UNCHANGED <<TPARAM, supVars>>
    /\ UNCHANGED restVars

\* every later call: path generator, control law, arc-length update
Cycle2DRun ==
    /\ TPARAM.Bar_Control_Mode \notin {1, 2}
    /\ yet_init
    /\ ~obs.hung
    /\ HostStep
    /\ \E st1 \in {TLAB_generate_2D_Path(
                   [Path_Mode |-> Path_Mode, s |-> s, zeta |-> zeta, P0 |-> P0, P1 |-> P1,
                    dist_WPs |-> dist_WPs, change_path_flag |-> change_path_flag,
                    i_zeta |-> i_zeta, s_calc |-> s_calc,
                    switched |-> FALSE, div0 |-> FALSE, hung |-> FALSE],
                   [i_prev |-> i_now_CMD, i_now |-> TLAB_CMD_index',
                    prev |-> prev_WP_loc', next |-> next_WP_loc', origin |-> Path_Origin],
                   Flight_Plan)} :
       \E v_g \in GroundSpeeds, chiF \in HeadingErrors, xF \in AlongTrackErrors,
          crab \in CrabAngles, dot_chi_d \in CourseRates :
       \E dt \in {TDiv(((clock' - t_now) % ClockModulus) * Scale, 1000000)} :
       \E sNew \in {IF st1.hung THEN st1.s
                    ELSE AdvanceArcLength(st1.s, st1.zeta, <<xF, 0, chiF>>, v_g, dt)} :
          /\ InBounds(sNew)
          /\ st1.i_zeta <= MaxIZeta
          /\ st1.s_calc <= MaxSCalc
          /\ t_now' = clock'
          /\ i_now_CMD' = TLAB_CMD_index'
          /\ Path_Mode' = st1.Path_Mode
          /\ zeta' = st1.zeta
          /\ P0' = st1.P0
          /\ P1' = st1.P1
          /\ dist_WPs' = st1.dist_WPs
          /\ change_path_flag' = st1.change_path_flag
          /\ i_zeta' = st1.i_zeta
          /\ s_calc' = st1.s_calc
          /\ s' = sNew
          /\ obs' = [kind |-> "run", changed |-> (TLAB_CMD_index' # i_now_CMD),
                     switched |-> st1.switched, div0 |-> st1.div0,
                     hung |-> st1.hung, s_gen |-> st1.s]
          /\ IF st1.hung THEN rudder' = rudder
             ELSE \E u \in BarAngleOf(st1.s, st1.zeta, <<xF, 0, chiF>>, v_g, crab, dot_chi_d) :
                     rudder' = SteeringRudder(ServoAngle(u))
    /\ UNCHANGED <<TPARAM, yet_init, Flight_Plan, Path_Origin, Fx, supVars>>
    /\ UNCHANGED restVars

Next == Cycle2DInit \/ Cycle2DRun

Spec == Init /\ [][Next]_vars

\* ------------------------------------------------ TLAB_Combine_Controller
Angles == {0, 157, M_PI}
Offsets == {-1000, 1000}
ControlModes == {0, 1, 2}

SupConfigs ==
    {[Config(0, 100, 210) EXCEPT !.control_mode = m, !.Combine = c, !.alternate = a,
                                 !.calc_GCRS = g, !.orbit_num = n, !.change_y = 1500]
       : m \in ControlModes, c \in {0, 1}, a \in {0, 1}, g \in {0, 1}, n \in {0, 1}}

InitSup == TPARAM \in SupConfigs /\ InitVars

init_TLAB_Controller ==
    /\ init_TLAB_Controller_flag
    /\ init_TLAB_Controller_flag' = FALSE
    /\ calc_GCRS_flag' = TPARAM.calc_GCRS
    /\ Combine_Mode_flag' = (TPARAM.Combine = 1)
    /\ TLAB_WP_nav_flag' = FALSE
    /\ alternate_orbit_flag' = (TPARAM.alternate = 1)
    /\ change_to_circle_flag' = FALSE
    /\ TLAB_Control_flag' = IF TPARAM.Combine = 1 THEN 0 ELSE TPARAM.control_mode
    /\ change_y' = TPARAM.change_y
    /\ orbit_num' = TPARAM.orbit_num
    /\ sup_obs' = [NoSupObs EXCEPT !.kind = "init"]
    /\ UNCHANGED <<init_TLAB_Controller_AUTO_flag, theta, prev_theta, Int_theta,
                   state_UAV_x, state_UAV_y>>
    /\ UNCHANGED <<TPARAM, envVars, pathVars, obs, yawVars>>
    /\ UNCHANGED restVars

\* the mission code starts waypoint navigation
StartWPNav ==
    /\ ~init_TLAB_Controller_flag
    /\ ~TLAB_WP_nav_flag
    /\ TLAB_WP_nav_flag' = TRUE
    /\ UNCHANGED <<init_TLAB_Controller_flag, TLAB_Control_flag, calc_GCRS_flag,
                   Combine_Mode_flag, alternate_orbit_flag, change_to_circle_flag, change_y,
                   orbit_num, init_TLAB_Controller_AUTO_flag, theta, prev_theta, Int_theta,
                   state_UAV_x, state_UAV_y>>
    /\ sup_obs' = [NoSupObs EXCEPT !.kind = "mission"]
    /\ UNCHANGED <<TPARAM, envVars, pathVars, obs, yawVars>>
    /\ UNCHANGED restVars

\* the mission code raises the trigger of the LINE -> CIRCLE transition
TriggerCircle ==
    /\ ~init_TLAB_Controller_flag
    /\ TLAB_WP_nav_flag
    /\ ~change_to_circle_flag
    /\ change_to_circle_flag' = TRUE
    /\ UNCHANGED <<init_TLAB_Controller_flag, TLAB_Control_flag, calc_GCRS_flag,
                   Combine_Mode_flag, alternate_orbit_flag, TLAB_WP_nav_flag, change_y,
                   orbit_num, init_TLAB_Controller_AUTO_flag, theta, prev_theta, Int_theta,
                   state_UAV_x, state_UAV_y>>
    /\ sup_obs' = [NoSupObs EXCEPT !.kind = "mission"]
    /\ UNCHANGED <<TPARAM, envVars, pathVars, obs, yawVars>>
    /\ UNCHANGED restVars

\* a supervisor state: the members TLAB_Combine_Controller and the controllers
\* it calls write, with the observations msgs and law
SupState ==
    [TLAB_Control_flag |-> TLAB_Control_flag, change_to_circle_flag |-> change_to_circle_flag,
     init_TLAB_Controller_AUTO_flag |-> init_TLAB_Controller_AUTO_flag,
     theta |-> theta, prev_theta |-> prev_theta, Int_theta |-> Int_theta,
     state_UAV_x |-> state_UAV_x, state_UAV_y |-> state_UAV_y,
     msgs |-> <<>>, law |-> "none"]

\* variant: the line controller puts the supervisor back into line mode
TLAB_Line_Trace_Controller_SetsLine(q, x, y) ==
    [q EXCEPT !.state_UAV_x = x, !.state_UAV_y = y, !.law = "line", !.TLAB_Control_flag = 0]

\* TLAB_Line_Trace_Controller: the vehicle position (x, y) in the waypoint frame is
\* stored; the control law runs only in line mode
TLAB_Line_Trace_Controller(q, x, y) ==
    [q EXCEPT !.state_UAV_x = x, !.state_UAV_y = y, !.law = "line"]

\* its value: 0 outside line mode, else the servo angle of the bar angle u of the law
LineTraceOutput(q, u) == IF q.TLAB_Control_flag # 0 THEN 0 ELSE ServoAngle(u)

\* variant: the bearing change is integrated whatever calc_GCRS_flag is
TLAB_Circle_Trace_Controller_Integrating(q, bearing) ==
    [q EXCEPT !.theta = bearing, !.prev_theta = bearing,
              !.Int_theta = q.Int_theta + wrap_PI(bearing - q.prev_theta), !.law = "circle"]

\* TLAB_Circle_Trace_Controller: bearing is the bearing of the vehicle from the circle centre
TLAB_Circle_Trace_Controller(q, bearing) ==
    LET r == IF calc_GCRS_flag = 0
             THEN [q EXCEPT !.theta = bearing]
             ELSE IF q.init_TLAB_Controller_AUTO_flag
                  THEN [q EXCEPT !.init_TLAB_Controller_AUTO_flag = FALSE,
                                 !.prev_theta = q.theta, !.Int_theta = 0]
                  ELSE [q EXCEPT !.theta = bearing, !.prev_theta = bearing,
                                 !.Int_theta = q.Int_theta + wrap_PI(bearing - q.prev_theta)]
    IN [r EXCEPT !.law = "circle"]

\* variant: the side of the line is not tested
OrbitsDone_AnySide(q) ==
    /\ FAbs(q.Int_theta) > 2 * M_PI * orbit_num
    /\ FAbs(q.state_UAV_y) < change_y

\* fabsf(Int_theta) > 2*M_PI*orbit_num && state_UAV_x > 0 && fabsf(state_UAV_y) < change_y
OrbitsDone(q) ==
    /\ FAbs(q.Int_theta) > 2 * M_PI * orbit_num
    /\ q.state_UAV_x > 0
    /\ FAbs(q.state_UAV_y) < change_y

\* variant: the trigger is left raised
EnterCircle_KeepTrigger(q, idx, bearing) ==
    TLAB_Circle_Trace_Controller(
        [q EXCEPT !.init_TLAB_Controller_AUTO_flag = TRUE,
                  !.TLAB_Control_flag = IF alternate_orbit_flag THEN (idx % 2) + 1
                                        ELSE IF TPARAM.control_mode = 1 THEN 1 ELSE 2,
                  !.msgs = Append(q.msgs, "change to circle trace mode")],
        bearing)

\* the branch "if (change_to_circle_flag)" of line mode
EnterCircle(q, idx, bearing) ==
    TLAB_Circle_Trace_Controller(
        [q EXCEPT !.change_to_circle_flag = FALSE,
                  !.init_TLAB_Controller_AUTO_flag = TRUE,
                  !.TLAB_Control_flag = IF alternate_orbit_flag THEN (idx % 2) + 1
                                        ELSE IF TPARAM.control_mode = 1 THEN 1 ELSE 2,
                  !.msgs = Append(q.msgs, "change to circle trace mode")],
        bearing)

\* variant: the exit forgets to clear the integrator
CircleMode_KeepIntegrator(q, x, y, bearing) ==
    LET k == TLAB_Line_Trace_Controller(q, x, y)
    IN IF OrbitsDone(k)
       THEN TLAB_Line_Trace_Controller(
                [k EXCEPT !.TLAB_Control_flag = 0,
                          !.msgs = Append(k.msgs, "change to line trace mode")], x, y)
       ELSE TLAB_Circle_Trace_Controller(k, bearing)

\* the branch of circle mode
CircleMode(q, x, y, bearing) ==
    LET k == TLAB_Line_Trace_Controller(q, x, y)
    IN IF OrbitsDone(k)
       THEN TLAB_Line_Trace_Controller(
                [k EXCEPT !.TLAB_Control_flag = 0, !.Int_theta = 0,
                          !.msgs = Append(k.msgs, "change to line trace mode")], x, y)
       ELSE TLAB_Circle_Trace_Controller(k, bearing)

CombineResult(q, idx, x, y, bearing) ==
    IF ~TLAB_WP_nav_flag
    THEN TLAB_Line_Trace_Controller([q EXCEPT !.TLAB_Control_flag = 0], x, y)
    ELSE IF q.TLAB_Control_flag = 0
         THEN IF q.change_to_circle_flag
              THEN EnterCircle(q, idx, bearing)
              ELSE TLAB_Line_Trace_Controller(q, x, y)
         ELSE CircleMode(q, x, y, bearing)

TLAB_Combine_Controller ==
    /\ ~init_TLAB_Controller_flag
    /\ \E idx \in CmdIdx, x \in Offsets, y \in Offsets, bearing \in Angles :
       \E q \in {CombineResult(SupState, idx, x, y, bearing)} :
          /\ q.Int_theta <= MaxTheta
          /\ q.Int_theta >= -MaxTheta
          /\ TLAB_CMD_index' = idx
          /\ TLAB_Control_flag' = q.TLAB_Control_flag
          /\ change_to_circle_flag' = q.change_to_circle_flag
          /\ init_TLAB_Controller_AUTO_flag' = q.init_TLAB_Controller_AUTO_flag
          /\ theta' = q.theta
          /\ prev_theta' = q.prev_theta
          /\ Int_theta' = q.Int_theta
          /\ state_UAV_x' = q.state_UAV_x
          /\ state_UAV_y' = q.state_UAV_y
          /\ sup_obs' = [kind |-> "run", msgs |-> q.msgs, law |-> q.law]
    /\ UNCHANGED <<init_TLAB_Controller_flag, calc_GCRS_flag, Combine_Mode_flag,
                   TLAB_WP_nav_flag, alternate_orbit_flag, change_y, orbit_num>>
    /\ UNCHANGED <<TPARAM, clock, prev_WP_loc, next_WP_loc, pathVars, obs, yawVars>>
    /\ UNCHANGED restVars

\* ------------------------------------------------ calc_nav_yaw_coordinated
\* TPARAM_Bar_Control_Mode == 1: the line trace controller drives the rudder
YawLineTrace ==
    /\ TPARAM.Bar_Control_Mode = 1
    /\ ~init_TLAB_Controller_flag
    /\ \E idx \in CmdIdx, x \in Offsets, y \in Offsets, u \in BarAngles :
       \E q \in {TLAB_Line_Trace_Controller(SupState, x, y)} :
          /\ TLAB_CMD_index' = idx
          /\ TLAB_Control_flag' = q.TLAB_Control_flag
          /\ state_UAV_x' = q.state_UAV_x
          /\ state_UAV_y' = q.state_UAV_y
          /\ sup_obs' = [kind |-> "yaw", msgs |-> q.msgs, law |-> q.law]
          /\ rudder' = SteeringRudder(LineTraceOutput(q, u))
    /\ UNCHANGED <<init_TLAB_Controller_flag, calc_GCRS_flag, Combine_Mode_flag,
                   TLAB_WP_nav_flag, alternate_orbit_flag, change_to_circle_flag, change_y,
                   orbit_num, init_TLAB_Controller_AUTO_flag, theta, prev_theta, Int_theta>>
    /\ UNCHANGED <<TPARAM, clock, prev_WP_loc, next_WP_loc, pathVars, obs>>
    /\ UNCHANGED restVars

\* servo = static_cast<int32_t>(g.TPARAM_servo_neutral*100)
TLAB_Constant_Output == TPARAM.servo_neutral * 100

\* TPARAM_Bar_Control_Mode == 2: the constant servo angle drives the rudder
YawConstantOutput ==
    /\ TPARAM.Bar_Control_Mode = 2
    /\ \E idx \in CmdIdx : TLAB_CMD_index' = idx
    /\ yet_init' = TRUE
    /\ rudder' = SteeringRudder(TLAB_Constant_Output)
    /\ sup_obs' = [kind |-> "yaw", msgs |-> <<>>, law |-> "constant"]
    /\ UNCHANGED <<init_TLAB_Controller_flag, TLAB_Control_flag, calc_GCRS_flag,
                   Combine_Mode_flag, TLAB_WP_nav_flag, alternate_orbit_flag,
                   change_to_circle_flag, change_y, orbit_num, init_TLAB_Controller_AUTO_flag,
                   theta, prev_theta, Int_theta, state_UAV_x, state_UAV_y>>
    /\ UNCHANGED <<TPARAM, clock, prev_WP_loc, next_WP_loc, Flight_Plan, Path_Origin,
                   Path_Mode, s, zeta, P0, P1, dist_WPs, i_now_CMD, change_path_flag, i_zeta,
                   s_calc, t_now, Fx, obs>>
    /\ UNCHANGED restVars

\* servo angles TPARAM_servo_neutral [deg]: 400 deg is 40000 cdeg, beyond 16 bits
ServoNeutrals == {0, 30, 400, -400}

\* the 2D trace controller and the constant output with the supervisor left in a
\* circle mode by init_TLAB_Controller; the line trace controller in every initial mode,
\* with and without combined flight
YawConfigs ==
    {[Config(5, 100, 210) EXCEPT !.Bar_Control_Mode = 0, !.control_mode = 1, !.change_y = 1500]}
    \cup {[Config(0, 100, 210) EXCEPT !.Bar_Control_Mode = 1, !.control_mode = m, !.Combine = c,
                                      !.calc_GCRS = g, !.orbit_num = g, !.change_y = 1500]
             : m \in ControlModes, c \in {0, 1}, g \in {0, 1}}
    \cup {[Config(0, 100, 210) EXCEPT !.Bar_Control_Mode = 2, !.servo_neutral = n,
                                      !.control_mode = 2, !.change_y = 1500]
             : n \in ServoNeutrals}

\* the mission code starts waypoint navigation and raises the trigger only in
\* combined flight
MissionStartWPNav == Combine_Mode_flag /\ StartWPNav
MissionTriggerCircle == Combine_Mode_flag /\ TriggerCircle

InitYaw == TPARAM \in YawConfigs /\ InitVars

NextSup == init_TLAB_Controller \/ StartWPNav \/ TriggerCircle \/ TLAB_Combine_Controller

SpecSup == InitSup /\ [][NextSup]_vars

NextYaw ==
    \/ init_TLAB_Controller \/ MissionStartWPNav \/ MissionTriggerCircle
    \/ TLAB_Combine_Controller
    \/ YawLineTrace \/ YawConstantOutput \/ Cycle2DInit \/ Cycle2DRun

SpecYaw == InitYaw /\ [][NextYaw]_vars

\* ------------------------------------------------- TPARAM_Bar_Control_Mode per cycle
\* calc_nav_yaw_coordinated reads g.TPARAM_Bar_Control_Mode in every cycle: the ground
\* station may write the parameter between two cycles
BarControlModes == {0, 2}

SetBarControlMode ==
    /\ \E m \in BarControlModes :
          /\ m # TPARAM.Bar_Control_Mode
          /\ TPARAM' = [TPARAM EXCEPT !.Bar_Control_Mode = m]
    /\ UNCHANGED <<envVars, pathVars, obs, supVars, yawVars>>
    /\ UNCHANGED restVars

\* the straight segment and the right arc, started in 2D trace mode or in
\* constant-output mode
ModeConfigs ==
    {[Config(p, 100, 210) EXCEPT !.Bar_Control_Mode = b] : p \in {0, 1}, b \in BarControlModes}

InitMode == TPARAM \in ModeConfigs /\ InitVars

NextMode == SetBarControlMode \/ YawConstantOutput \/ Cycle2DInit \/ Cycle2DRun

SpecMode == InitMode /\ [][NextMode]_vars

\* ------------------------------------------------- TLAB_Throttle_Controller
\* inputs of one cycle: current_loc.alt and next_WP_loc.alt [cm], ahrs.pitch [rad],
\* the reading of AP_HAL::micros64() [us] (it may repeat and may go back),
\* gps_dh = -gps.velocity().z [m/s], ahrs.get_gyro().y [rad/s] and the member alpha of
\* the line trace controller that z2 reads [rad]
Altitudes == {9900, 10000}
TargetAltitudes == {10000}
Pitches == {28, 10}
TimeReadings == {0, 500000, 1000000}
ClimbRates == {0, -100}
PitchRates == {0}
SideslipAngles == {0}

\* if(firsttime_Th){...}: the first call latches the altitude, the pitch, the clock and
\* the parameters of the PD laws
FirstCall(st, z_cm, pitch, now) ==
    IF st.firsttime_Th
    THEN [st EXCEPT !.firsttime_Th = FALSE, !.z_old = z_cm, !.pitch_old = pitch, !.dz = 0,
                    !.err_count = 0, !.prev_time_Th = now,
                    !.d1_Th = TPARAM.pdc_height_d1_Th, !.d2_Th = TPARAM.pdc_height_d2_Th,
                    !.kp_Th = <<TPARAM.height_kp0_Th, TPARAM.height_kp1_Th>>,
                    !.kd_Th = <<TPARAM.height_kd0_Th, TPARAM.height_kd1_Th>>,
                    !.motor_neutral = TPARAM.motor_neutral_Th]
    ELSE st

\* past_time_Th = current_time_Th - prev_time_Th in uint64_t: us microseconds when the
\* reading did not go back, and 2^64 - us microseconds when it did
past_time_Th(now, prev) ==
    [wrapped |-> now < prev, us |-> IF now >= prev THEN now - prev ELSE prev - now]

\* past_time_Th == 0
PastIsZero(p) == ~p.wrapped /\ p.us = 0

\* d/past_time_Th_f, past_time_Th_f = past_time_Th*1e-6 [s]: by a wrapped difference (more
\* than 2^63 us) every quotient of a 32-bit d is below the resolution 1/Scale
RateOver(d, p) == IF p.wrapped THEN 0 ELSE TDiv(d * 1000000, p.us)

TimeStep_Uncounted(st, z_cm, pitch, now) ==
    LET p == past_time_Th(now, st.prev_time_Th)
    IN IF PastIsZero(p)
       THEN [st EXCEPT !.z_old = z_cm, !.pitch_old = pitch, !.prev_time_Th = now]
       ELSE [st EXCEPT !.dz = RateOver(z_cm - st.z_old, p),
                       !.speed_pitch = RateOver(pitch - st.pitch_old, p),
                       !.z_old = z_cm, !.pitch_old = pitch, !.prev_time_Th = now]

\* if (past_time_Th == 0){ err_count++; ...} else { dz = dz_f*0.01/past_time_Th_f;
\* speed_pitch = d_pitch/past_time_Th_f; ...}
TimeStep(st, z_cm, pitch, now) ==
    LET p == past_time_Th(now, st.prev_time_Th)
    IN IF PastIsZero(p)
       THEN [st EXCEPT !.err_count = @ + 1,
                       !.z_old = z_cm, !.pitch_old = pitch, !.prev_time_Th = now]
       ELSE [st EXCEPT !.dz = RateOver(z_cm - st.z_old, p),
                       !.speed_pitch = RateOver(pitch - st.pitch_old, p),
                       !.z_old = z_cm, !.pitch_old = pitch, !.prev_time_Th = now]

\* ---- membership values kept exact: the quotient n/d of two floats, d >= 0
FSub(a, b) == IF a = NaN \/ b = NaN THEN NaN ELSE a - b

\* n/d; a NaN quotient is kept as 0/0
Ratio(n, d) ==
    IF n = NaN \/ d = NaN THEN [n |-> 0, d |-> 0]
    ELSE IF d < 0 THEN [n |-> -n, d |-> -d] ELSE [n |-> n, d |-> d]

\* constrain_float(n/d, 0.0f, 1.0f): x/0 is +-inf and is limited, 0/0 is NaN and gives 0.5
Clamp01(q) ==
    IF q.d = 0 THEN (IF q.n > 0 THEN [n |-> 1, d |-> 1]
                     ELSE IF q.n < 0 THEN [n |-> 0, d |-> 1] ELSE [n |-> 1, d |-> 2])
    ELSE IF q.n < 0 THEN [n |-> 0, d |-> q.d]
    ELSE IF q.n > q.d THEN [n |-> q.d, d |-> q.d] ELSE q

\* the float of an exact value in [0, 1]
ToFloat(q) == TDiv(q.n * One, q.d)

\* h_Th[0] = constrain_float((de_m - d2_Th)/(d1_Th - d2_Th),0,1);
\* h_Th[1] = constrain_float((d1_Th - de_m)/(d1_Th - d2_Th),0,1)
h_Th(de_m, d1, d2) ==
    <<Clamp01(Ratio(FSub(de_m, d2), d1 - d2)), Clamp01(Ratio(FSub(d1, de_m), d1 - d2))>>

\* (1/cosf(TPARAM_theta_a*M_PI/180))*(0.1059*V_a*V_a - 0.3342*V_a + 1.6227) [N]
airpower ==
    FMul(FDiv(One, cosf(TDiv(TPARAM.theta_a * M_PI, 180))),
         TDiv(1059 * TPARAM.V_a * TPARAM.V_a, 1000000) - TDiv(3342 * TPARAM.V_a, 10000) + 162)

\* motor_Th_N = motor_neutral; motor_Th_N += -(kp_Th[0]*e_m + kd_Th[0]*de_m)
PlainPD(st, e_m, de_m) ==
    st.motor_neutral - (FMul(st.kp_Th[1], e_m) + FMul(st.kd_Th[1], de_m))

\* cha_pow 1: the equilibrium thrust of the wind tunnel formula and the two PD rules
\* blended by h_Th
FuzzyPD(st, e_m, de_m) ==
    LET h == h_Th(de_m, st.d1_Th, st.d2_Th)
    IN airpower - FMul(ToFloat(h[1]), FMul(st.kp_Th[1], e_m) + FMul(st.kd_Th[1], de_m))
                - FMul(ToFloat(h[2]), FMul(st.kp_Th[2], e_m) + FMul(st.kd_Th[2], de_m))

\* cha_pow 2: F1, F2 [1e-4] polynomial gains of e_m, de_m, pitch - theta_a and speed_pitch
SOSLaw(st, e_m, de_m, pitch) ==
    LET dp == pitch - TDiv(TPARAM.theta_a * M_PI, 180)
        F1 == TDiv(80 * e_m - 58 * de_m + 1793 * dp + 498 * st.speed_pitch, 100) + 3259
        F2 == TDiv(-58 * e_m - 12 * de_m + 633 * dp - 208 * st.speed_pitch, 100) + 906
    IN st.motor_neutral - TDiv(F1 * e_m + F2 * de_m, 10000)

\* switch_controller_alt: the feedback gains f[8][4] [1e-2] and the bounds
\* maxmin_z[3][2] = {max, min} [1e-3] of the table number_controller_alt; every
\* number other than 1, 2, 3 selects the last table
GainTable(num) ==
    IF num = 1 THEN <<<<25, 381, -1, 24>>, <<22, 359, -4, 21>>, <<21, 414, 0, 22>>,
                      <<18, 386, -3, 18>>, <<16, 455, 2, 16>>, <<15, 397, -2, 16>>,
                      <<10, 473, 5, 19>>, <<12, 403, -1, 14>>>>
    ELSE IF num = 2 THEN <<<<100, 431, 9, 30>>, <<82, 484, 6, 27>>, <<93, 535, 9, 30>>,
                           <<77, 515, 6, 26>>, <<79, 624, 9, 27>>, <<63, 566, 5, 23>>,
                           <<61, 657, 10, 25>>, <<55, 583, 5, 21>>>>
    ELSE IF num = 3 THEN <<<<111, 275, 6, 22>>, <<112, 318, 6, 22>>, <<117, 372, 7, 23>>,
                           <<113, 382, 6, 22>>, <<93, 496, 6, 20>>, <<88, 464, 5, 18>>,
                           <<78, 497, 6, 18>>, <<79, 462, 5, 17>>>>
    ELSE <<<<39, 227, -26, 16>>, <<36, 216, -29, 15>>, <<32, 253, -18, 17>>,
           <<27, 245, -21, 15>>, <<27, 286, -8, 8>>, <<26, 262, -20, 10>>,
           <<23, 293, -7, 19>>, <<19, 272, -12, 13>>>>

BoundTable(num) ==
    IF num = 1 \/ num = 2 THEN <<<<-200, -807>>, <<13993, 10248>>, <<318, 74>>>>
    ELSE <<<<-200, -807>>, <<13253, 11110>>, <<260, 137>>>>

\* atan [rad] of a float: x/(1 + 0.28 x^2) on [-1, 1], pi/2 - atan(1/x) outside
RECURSIVE atan(_)
atan(x) ==
    IF x >= -One /\ x <= One THEN TDiv(x * 1000000, 1000000 + 28 * x * x)
    ELSE IF x > 0 THEN M_PI \div 2 - atan(TDiv(One * One, x))
    ELSE -(M_PI \div 2) - atan(TDiv(One * One, x))

\* z1, z2, z3 [1e-3] of the LMI law, with c_L = c_rho*c_C_L*c_S = 0.568,
\* c_D = c_rho*c_C_D*c_S = 0.200, c_m_1 + c_m_2 = 1.367, v_xn = 6.55,
\* (c_l - c_l_g)/(2*c_I_y) = 3.004, c_l*v_xn = 6.281, c_D*v_xn = 1.309, c_L*v_xn = 3.719
\* and theta_n = 15.8 deg = 0.28 rad
SchedulingVars(gps_dh, gps_dpitch, theta_r, alpha) ==
    LET theta_n == 28
        gam == atan(FDiv(gps_dh, 655))
        B == theta_r + theta_n + alpha - gam
        G == theta_n + alpha
        z1 == TDiv((TDiv(568 * gps_dh * cosf(gam) - 200 * gps_dh * sinf(gam), 10000)
                    - 1309) * 1000, 2 * 1367)
        S == - TDiv(568 * gps_dpitch * sinf(B), 10000)
             + TDiv(6281 * cosf(theta_r) * cosf(G), 10000)
             + TDiv(200 * gps_dh * cosf(B), 10000)
             + TDiv(1309 * cosf(theta_r) * sinf(G), 10000)
             - TDiv(3719 * sinf(theta_r) * sinf(G), 10000)
             - TDiv(1309 * sinf(theta_r) * cosf(G), 10000)
        z2 == TDiv(3004 * S, 1000)
        z3 == TDiv(sinf(theta_r + theta_n) * 10000, 1367)
    IN <<z1, z2, z3>>

\* mem[0] = constrain_float((max - z)/(max - min),0,1);
\* mem[1] = constrain_float((z - min)/(max - min),0,1)
MemPair(z, zmax, zmin) ==
    <<Clamp01(Ratio(FSub(zmax, z), zmax - zmin)), Clamp01(Ratio(FSub(z, zmin), zmax - zmin))>>

\* the rules in the order of the loops over i, j, k: num_loop = 4*i + 2*j + k
RuleIndex == [n \in 1 .. 8 |-> <<((n - 1) \div 4) + 1, (((n - 1) \div 2) % 2) + 1,
                                 ((n - 1) % 2) + 1>>]

\* h[num_loop] = mem_M[i]*mem_N[j]*mem_L[k], exact
LMIWeights(z, maxmin_z) ==
    LET mem_M == MemPair(z[1], maxmin_z[1][1], maxmin_z[1][2])
        mem_N == MemPair(z[2], maxmin_z[2][1], maxmin_z[2][2])
        mem_L == MemPair(z[3], maxmin_z[3][1], maxmin_z[3][2])
    IN [n \in 1 .. 8 |->
           [n |-> mem_M[RuleIndex[n][1]].n * mem_N[RuleIndex[n][2]].n * mem_L[RuleIndex[n][3]].n,
            d |-> mem_M[RuleIndex[n][1]].d * mem_N[RuleIndex[n][2]].d * mem_L[RuleIndex[n][3]].d]]

\* -h[i]*sum_j f[i][j]*x_r[j] as the float product of the three membership values
RuleThrust(mem_M, mem_N, mem_L, idx, f, x_r) ==
    FMul(FMul(FMul(ToFloat(mem_M[idx[1]]), ToFloat(mem_N[idx[2]])), ToFloat(mem_L[idx[3]])),
         TDiv(f[1] * x_r[1] + f[2] * x_r[2] + f[3] * x_r[3] + f[4] * x_r[4], 100))

RECURSIVE SumRules(_, _, _, _, _, _, _)
SumRules(n, mem_M, mem_N, mem_L, f, x_r, acc) ==
    IF n > 8 THEN acc
    ELSE SumRules(n + 1, mem_M, mem_N, mem_L, f, x_r,
                  acc - RuleThrust(mem_M, mem_N, mem_L, RuleIndex[n], f[n], x_r))

\* cha_pow 6: motor_Th_N = T_neutral - sum_i h[i]*(f[i] . x_r), x_r = {e_m, gps_dh,
\* theta_r, gps_dpitch}, T_neutral = 4.46
LMILaw(e_m, pitch, gps_dh, gps_dpitch, alpha) ==
    LET theta_r == pitch - 28
        z == SchedulingVars(gps_dh, gps_dpitch, theta_r, alpha)
        maxmin_z == BoundTable(TPARAM.c_alt)
    IN SumRules(1, MemPair(z[1], maxmin_z[1][1], maxmin_z[1][2]),
                MemPair(z[2], maxmin_z[2][1], maxmin_z[2][2]),
                MemPair(z[3], maxmin_z[3][1], maxmin_z[3][2]),
                GainTable(TPARAM.c_alt), <<e_m, gps_dh, theta_r, gps_dpitch>>, 446)

\* the chain if(cha_pow == 1) ... else if(cha_pow == 6){...}: it has no final else, so
\* every other selector leaves motor_Th_N as the last cycle left it
ThrustLaw(st, e_m, pitch, gps_dh, gps_dpitch, alpha) ==
    IF TPARAM.cha_pow = 1 THEN FuzzyPD(st, e_m, st.dz)
    ELSE IF TPARAM.cha_pow = 2 THEN SOSLaw(st, e_m, st.dz, pitch)
    ELSE IF TPARAM.cha_pow = 3 THEN PlainPD(st, e_m, st.dz)
    ELSE IF TPARAM.cha_pow = 4 THEN 0
    ELSE IF TPARAM.cha_pow = 5 THEN 0
    ELSE IF TPARAM.cha_pow = 6 THEN LMILaw(e_m, pitch, gps_dh, gps_dpitch, alpha)
    ELSE st.motor_Th_N

\* the values a build gives to the conversion (int32_t) of a NaN or an infinite float
UndefinedInt32 == {-2147483647, 0, 2147483647}

constrain_int32(amt, low, high) == IF amt < low THEN low ELSE IF amt > high THEN high ELSE amt

\* kk = airpower/(a*neutral_t^2 + c), a = 0.002287, c = 0.069757 [1e-6]
ThrustGain == TDiv(airpower * 1000000, 2287 * TPARAM.neutral_t * TPARAM.neutral_t + 69757)

\* (int32_t)sqrtf((thrust - c*kk)/(a*kk))
ThrustRoot(thrust) ==
    LET num == thrust * 1000000 - 69757 * ThrustGain
        den == 2287 * ThrustGain
    IN IF den = 0 \/ (num < 0 /\ den > 0) \/ (num > 0 /\ den < 0) THEN UndefinedInt32
       ELSE {ISqrt(num \div den)}

thrust_to_percent_Unlimited(thrust) ==
    IF thrust * 100 < 3256 THEN {0} ELSE ThrustRoot(thrust)

\* if (thrust < 0.3256) return 0; else return constrain_int32(value, 0, TPARAM_MAX_slo)
thrust_to_percent(thrust) ==
    IF thrust * 100 < 3256 THEN {0}
    ELSE {constrain_int32(value, 0, TPARAM.MAX_slo) : value \in ThrustRoot(thrust)}

\* calc_throttle: one call of TLAB_Throttle_Controller and
\* channel_throttle->set_servo_out(commanded_throttle)
calc_throttle ==
    /\ \E z_cm \in Altitudes, z_r_cm \in TargetAltitudes, pitch \in Pitches,
          now \in TimeReadings, gps_dh \in ClimbRates, gyro_y \in PitchRates,
          alpha \in SideslipAngles :
       \E st0 \in {FirstCall(Th, z_cm, pitch, now)} :
       \E st \in {TimeStep(st0, z_cm, pitch, now)} :
       \E thrust \in {ThrustLaw(st, z_cm - z_r_cm, pitch, gps_dh, wrap_PI(gyro_y), alpha)} :
          /\ st.err_count <= MaxErrCount
          /\ Th' = [st EXCEPT !.motor_Th_N = thrust]
          /\ throttle' \in thrust_to_percent(thrust)
          /\ th_obs' = [kind |-> "run", first |-> Th.firsttime_Th,
                        divided |-> ~PastIsZero(past_time_Th(now, st0.prev_time_Th)),
                        back |-> ~Th.firsttime_Th /\ now < Th.prev_time_Th,
                        h_div0 |-> st.d1_Th = st.d2_Th,
                        pd |-> PlainPD(st, z_cm - z_r_cm, st.dz)]
    /\ UNCHANGED <<TPARAM, envVars, pathVars, obs, supVars, yawVars, memVars, fnVars>>

\* the altitude laws 1..6 and two selectors outside them, the fuzzy PD law with
\* coinciding bounds d1_Th = d2_Th, the LMI law with every table and with numbers outside
\* the tables, other actuator limits (none of them negative) and neutral points, and a
\* neutral thrust below the cutoff of thrust_to_percent
ThBase == [Config(5, 100, 210) EXCEPT !.control_mode = 2]

ThConfigs ==
    {[ThBase EXCEPT !.cha_pow = c] : c \in 0 .. 7}
    \cup {[ThBase EXCEPT !.cha_pow = 1, !.pdc_height_d1_Th = 100, !.pdc_height_d2_Th = 100]}
    \cup {[ThBase EXCEPT !.cha_pow = 6, !.c_alt = n] : n \in {0, 2, 3, 4, 9}}
    \cup {[ThBase EXCEPT !.MAX_slo = m, !.neutral_t = n] : m \in {0, 50}, n \in {0, 40}}
    \cup {[ThBase EXCEPT !.motor_neutral_Th = 30]}

InitTh == TPARAM \in ThConfigs /\ InitVars

NextTh == calc_throttle

SpecTh == InitTh /\ [][NextTh]_vars

\* ------------------------------------------------------ membership functions
\* exact values n/d with d >= 0: n/0 is +-inf, 0/0 is NaN
RatOne == [n |-> 1, d |-> 1]
RatZero == [n |-> 0, d |-> 1]
RatMul(a, b) == [n |-> a.n * b.n, d |-> a.d * b.d]
RatAdd(a, b) ==
    IF a.d = b.d THEN [n |-> a.n + b.n, d |-> a.d]
    ELSE [n |-> a.n * b.d + b.n * a.d, d |-> a.d * b.d]
\* 1.0f - q
OneMinus(q) == [n |-> q.d - q.n, d |-> q.d]
RatGt1(q) == (q.d > 0 /\ q.n > q.d) \/ (q.d = 0 /\ q.n > 0)
RatLt0(q) == q.n < 0

RECURSIVE SumRat(_, _)
SumRat(h, i) == IF i = Len(h) THEN h[i] ELSE RatAdd(h[i], SumRat(h, i + 1))

\* NaN-aware sum and product of floats
NAdd(a, b) == IF a = NaN \/ b = NaN THEN NaN ELSE a + b
NMul(a, b) == IF a = NaN \/ b = NaN THEN NaN ELSE FMul(a, b)

\* init_TLAB_2D_Trace_Controller: the bounds of the nonlinear terms
chiF_max == TDiv(TPARAM.chiF_max_deg * M_PI, 180)
z1_max == FMul(TPARAM.v_g_max + TPARAM.u_x_max, TPARAM.kappa_max)
z1_min == FMul(TPARAM.v_g_max + TPARAM.u_x_max, TPARAM.kappa_min)
z2_max == TPARAM.v_g_max
z2_min == FDiv(FMul(TPARAM.v_g_max, sinf(chiF_max)), chiF_max)

\* z1 = (v_g*cosf(chiF) + u_x)*kappa; z2 = v_g*sinf(chiF)/chiF
LateralZ1(v_g, chiF, u_x, kappa) == NMul(NAdd(FMul(v_g, cosf(chiF)), u_x), kappa)
LateralZ2(v_g, chiF) == FDiv(FMul(v_g, sinf(chiF)), chiF)

\* variant: only the first value of the pair is cut
CutPair_FirstOnly(a, b) ==
    IF RatGt1(a) THEN <<RatOne, b>>
    ELSE IF RatLt0(a) THEN <<RatZero, b>> ELSE <<a, b>>

\* if (K1 > 1) {K1 = 1; K2 = 0;} else if (K1 < 0) {K1 = 0; K2 = 1;}
CutPair(a, b) ==
    IF RatGt1(a) THEN <<RatOne, RatZero>>
    ELSE IF RatLt0(a) THEN <<RatZero, RatOne>> ELSE <<a, b>>

\* K1, K2, M1, M2 and h_chi[0..3] of TLAB_2D_Trace_Controller
LateralMemberships(z1, z2, chiF) ==
    LET K == IF chiF = 0 THEN <<RatOne, RatZero>>
             ELSE <<Ratio(FSub(z2, z2_min), z2_max - z2_min),
                    Ratio(FSub(z2_max, z2), z2_max - z2_min)>>
        M == <<Ratio(FSub(z1, z1_min), z1_max - z1_min),
               Ratio(FSub(z1_max, z1), z1_max - z1_min)>>
        Kc == CutPair(K[1], K[2])
        Mc == CutPair(M[1], M[2])
    IN [K |-> Kc, M |-> Mc,
        h_chi |-> <<RatMul(Kc[1], Mc[1]), RatMul(Kc[2], Mc[1]),
                    RatMul(Kc[1], Mc[2]), RatMul(Kc[2], Mc[2])>>]

\* init_TLAB_Controller: phi_max [rad] and rule_num of the comparison fuzzy law
phi_max == TDiv(TPARAM.phi_max * M_PI, 180)
rule_num == IF TPARAM.rule_num = 2 THEN 2 ELSE 4

\* m_mem, n_mem and h_mem[0..3] of calc_controller (fuzzy branch); 2*180/M_PI = 114.59
FuzzyMemberships(v_g, x2) ==
    LET m == IF v_g > TPARAM.Vg_max THEN <<RatOne, RatZero>>
             ELSE IF v_g < TPARAM.Vg_min THEN <<RatZero, RatOne>>
             ELSE <<Ratio(v_g - TPARAM.Vg_min, TPARAM.Vg_max - TPARAM.Vg_min),
                    OneMinus(Ratio(v_g - TPARAM.Vg_min, TPARAM.Vg_max - TPARAM.Vg_min))>>
        b2 == FDiv(sinf(phi_max), phi_max)
        n0 == Ratio(sinf(x2) - FMul(b2, x2), FMul(One - b2, x2))
        n == IF FAbs(x2) < 11459 THEN <<RatOne, RatZero>>
             ELSE IF FAbs(x2) > phi_max THEN <<RatZero, RatOne>>
             ELSE <<n0, OneMinus(n0)>>
    IN [m_mem |-> m, n_mem |-> n,
        h_mem |-> IF rule_num = 2 THEN <<m[1], m[2], RatZero, RatZero>>
                  ELSE <<RatMul(m[1], n[1]), RatMul(m[1], n[2]),
                         RatMul(m[2], n[1]), RatMul(m[2], n[2])>>]

\* inputs: ground speeds [m/s], heading errors [rad], speed inputs u_x [m/s] and
\* curvatures [1/m]; u_x is NaN after a division by dist_WPs = 0 in the path generator
MemGroundSpeeds == {0, 300, 500, 1000, 1500}
MemHeadingErrors == {0, 1, 50, 310}
MemSpeedInputs == {500, -2000, NaN}
MemCurvatures == {-5, 2, 5, 10}
\* a scheduling variable of the LMI law [1e-3] below, at, between and above its bounds
Around(lo, hi) == {lo - 100, lo, (lo + hi) \div 2, hi, hi + 100}
\* altitude rates de_m [m/s]
MemRates == {-200, -150, 0, 100, 150, 200}
\* heading errors x2 of calc_controller
MemAngles == {0, 12000, -12100, 12300}

\* the observation of one membership computation: the pairs, the input and the bounds
\* of every pair, and the combined weights
MemObs(kind, pairs, in, h) == [kind |-> kind, pairs |-> pairs, in |-> in, h |-> h]
PairIn(z, lo, hi) == [z |-> z, lo |-> lo, hi |-> hi]

\* the membership computation of one cycle of TLAB_2D_Trace_Controller
MemLateral ==
    /\ \E v_g \in {500, 1000}, chiF \in MemHeadingErrors, u_x \in MemSpeedInputs,
          kappa \in MemCurvatures :
       \E z1 \in {LateralZ1(v_g, chiF, u_x, kappa)}, z2 \in {LateralZ2(v_g, chiF)} :
       \E r \in {LateralMemberships(z1, z2, chiF)} :
          mem' = [kind |-> "lateral", pairs |-> <<r.K, r.M>>,
                  in |-> <<PairIn(z2, z2_min, z2_max), PairIn(z1, z1_min, z1_max)>>,
                  h |-> r.h_chi, chiF |-> chiF]
    /\ UNCHANGED <<TPARAM, envVars, pathVars, obs, supVars, yawVars, thVars, fnVars>>

\* the membership computation of the LMI law (cha_pow 6)
MemLMI ==
    /\ \E b \in {BoundTable(TPARAM.c_alt)} :
       \E z1 \in Around(b[1][2], b[1][1]) \cup {NaN}, z2 \in Around(b[2][2], b[2][1]),
          z3 \in Around(b[3][2], b[3][1]) :
          mem' = MemObs("lmi",
                        <<MemPair(z1, b[1][1], b[1][2]), MemPair(z2, b[2][1], b[2][2]),
                          MemPair(z3, b[3][1], b[3][2])>>,
                        <<PairIn(z1, b[1][2], b[1][1]), PairIn(z2, b[2][2], b[2][1]),
                          PairIn(z3, b[3][2], b[3][1])>>,
                        LMIWeights(<<z1, z2, z3>>, b))
    /\ UNCHANGED <<TPARAM, envVars, pathVars, obs, supVars, yawVars, thVars, fnVars>>

\* the weights h_Th of the fuzzy PD law
MemFuzzyPD ==
    /\ \E de_m \in MemRates :
       \E h \in {h_Th(de_m, TPARAM.pdc_height_d1_Th, TPARAM.pdc_height_d2_Th)} :
          mem' = MemObs("pd", <<h>>,
                        <<PairIn(de_m, TPARAM.pdc_height_d2_Th, TPARAM.pdc_height_d1_Th)>>, h)
    /\ UNCHANGED <<TPARAM, envVars, pathVars, obs, supVars, yawVars, thVars, fnVars>>

\* the fuzzy branch of calc_controller (use_fuzzy_controller)
MemCalcController ==
    /\ TPARAM.rule_num # 0
    /\ \E v_g \in MemGroundSpeeds, x2 \in MemAngles :
       \E r \in {FuzzyMemberships(v_g, x2)} :
          mem' = MemObs("fuzzy", <<r.m_mem, r.n_mem>>,
                        <<PairIn(v_g, TPARAM.Vg_min, TPARAM.Vg_max),
                          PairIn(FAbs(x2), 11459, phi_max)>>, r.h_mem)
    /\ UNCHANGED <<TPARAM, envVars, pathVars, obs, supVars, yawVars, thVars, fnVars>>

\* the configured ranges, the four tables of switch_controller_alt and a number outside
\* them, the two-rule fuzzy law, and the ranges whose bounds coincide
MemConfigs ==
    {ThBase, [ThBase EXCEPT !.rule_num = 2],
     [ThBase EXCEPT !.Vg_min = 500, !.Vg_max = 500],
     [ThBase EXCEPT !.pdc_height_d1_Th = 100, !.pdc_height_d2_Th = 100],
     [ThBase EXCEPT !.kappa_min = 5]}
    \cup {[ThBase EXCEPT !.c_alt = n] : n \in {0, 2, 3, 4}}

InitMem == TPARAM \in MemConfigs /\ InitVars

NextMem == MemLateral \/ MemLMI \/ MemFuzzyPD \/ MemCalcController

SpecMem == InitMem /\ [][NextMem]_vars

\* ------------------------------------- outputs of TLAB_generate_2D_Path
\* arithmetic of floats that may be +-inf or NaN
XNeg(a) == IF a = NaN THEN NaN ELSE IF a = PInf THEN NInf ELSE IF a = NInf THEN PInf ELSE -a

XMul(a, b) ==
    IF a = NaN \/ b = NaN THEN NaN
    ELSE IF IsFinite(a) /\ IsFinite(b) THEN FMul(a, b)
    ELSE IF a = 0 \/ b = 0 THEN NaN
    ELSE IF (a > 0) = (b > 0) THEN PInf ELSE NInf

XDiv(a, b) ==
    IF a = NaN \/ b = NaN THEN NaN
    ELSE IF IsFinite(a) /\ IsFinite(b) THEN FDiv(a, b)
    ELSE IF ~IsFinite(a) /\ ~IsFinite(b) THEN NaN
    ELSE IF ~IsFinite(b) THEN 0
    ELSE IF (a > 0) = (b >= 0) THEN PInf ELSE NInf

\* atan2f(y, x) of two finite floats [rad], in (-pi, pi]
atan2f(y, x) ==
    IF x > 0 THEN atan(FDiv(y, x))
    ELSE IF x < 0 THEN (IF y >= 0 THEN atan(FDiv(y, x)) + M_PI ELSE atan(FDiv(y, x)) - M_PI)
    ELSE IF y > 0 THEN M_PI \div 2 ELSE IF y < 0 THEN -(M_PI \div 2) ELSE 0

\* powf(w, 1.5f) of a float w >= 0
Pow15(w) == FMul(w, ISqrt(w * Scale))

\* variant: the weights of the two endpoints exchanged
StraightPoint_Exchanged(st) ==
    IF IsFinite(st.zeta)
    THEN Vec(FMul(st.zeta, st.P0.x) + FMul(One - st.zeta, st.P1.x),
             FMul(st.zeta, st.P0.y) + FMul(One - st.zeta, st.P1.y))
    ELSE Vec(NaN, NaN)

\* Path_Mode 0: x_d = (1 - zeta)*P0.x + zeta*P1.x; y_d = (1 - zeta)*P0.y + zeta*P1.y
StraightPoint(st) ==
    IF IsFinite(st.zeta)
    THEN Vec(FMul(One - st.zeta, st.P0.x) + FMul(st.zeta, st.P1.x),
             FMul(One - st.zeta, st.P0.y) + FMul(st.zeta, st.P1.y))
    ELSE Vec(NaN, NaN)

\* variant: the curvature of a circle whose radius is the arc length flown
ArcCurvature_OfS(st) ==
    IF st.Path_Mode \in {1, 2} THEN FDiv(2 * One, st.s) ELSE FDiv(One, st.s)

\* Path_Mode 1, 2: kappa = 2/dist_WPs; Path_Mode 4, 5: kappa = 1.f/g.TPARAM_r
ArcCurvature(st) ==
    IF st.Path_Mode \in {1, 2} THEN FDiv(2 * One, st.dist_WPs) ELSE FDiv(One, TPARAM.r)

\* the assignments of "switch (Path_Mode)" after zeta: dot_zeta, x_d, y_d, chi_d,
\* dot_chi_d and kappa of the primitive st.Path_Mode in 0 .. 6; zeta_prev is zeta at the
\* entry of the call.  A non-finite zeta or zeta_prev leaves the values computed from it NaN
PathOutputs(st, zeta_prev, dt) ==
    LET z == st.zeta
        fin == IsFinite(z)
        r == TPARAM.r
        dot_zeta == IF fin /\ IsFinite(zeta_prev) THEN FDiv(z - zeta_prev, dt) ELSE NaN
        mid == Vec((st.P0.x + st.P1.x) \div 2, (st.P0.y + st.P1.y) \div 2)
        half == st.dist_WPs \div 2
        sz == sinf(z)
        cz == cosf(z)
        w3 == 25 * FMul(sinf(5 * z), sinf(5 * z)) + 36 * FMul(sinf(6 * z), sinf(6 * z))
        w6 == 4 * FMul(FMul(cz, cz), FMul(cz, cz)) - 3 * FMul(cz, cz) + One
        q6 == 2 * FMul(sz, sz) - 3 * One
    IN CASE st.Path_Mode = 0 ->
              [dot_zeta |-> dot_zeta,
               x_d |-> StraightPoint(st).x, y_d |-> StraightPoint(st).y,
               chi_d |-> -atan2f(st.P1.y - st.P0.y, st.P1.x - st.P0.x),
               dot_chi_d |-> 0, kappa |-> 0]
         [] st.Path_Mode = 1 ->
              [dot_zeta |-> dot_zeta,
               x_d |-> IF fin THEN FMul(half, cz) + mid.x ELSE NaN,
               y_d |-> IF fin THEN FMul(half, sz) + mid.y ELSE NaN,
               chi_d |-> IF fin THEN atan2f(cz, sz) ELSE NaN,
               dot_chi_d |-> XNeg(dot_zeta), kappa |-> ArcCurvature(st)]
         [] st.Path_Mode = 2 ->
              [dot_zeta |-> dot_zeta,
               x_d |-> IF fin THEN FMul(half, cosf(-z)) + mid.x ELSE NaN,
               y_d |-> IF fin THEN FMul(half, sinf(-z)) + mid.y ELSE NaN,
               chi_d |-> IF fin THEN atan2f(cz, -sz) ELSE NaN,
               dot_chi_d |-> dot_zeta, kappa |-> ArcCurvature(st)]
         [] st.Path_Mode = 3 ->
              [dot_zeta |-> dot_zeta,
               x_d |-> -FMul(r, cosf(5 * z)) + st.P1.x,
               y_d |-> FMul(r, cosf(6 * z)) + st.P1.y,
               chi_d |-> atan2f(TDiv(6 * sinf(6 * z), 5), sinf(5 * z)),
               dot_chi_d |-> XDiv(XMul(XNeg(30 * One), XMul(dot_zeta, sinf(11 * z) - 11 * sz)),
                                  25 * cosf(10 * z) + 36 * cosf(12 * z) - 61 * One),
               kappa |-> FDiv(15 * FAbs(11 * sz - sinf(11 * z)), FMul(r, Pow15(w3)))]
         [] st.Path_Mode = 4 ->
              [dot_zeta |-> dot_zeta,
               x_d |-> IF fin THEN -FMul(r, cz) + st.P1.x ELSE NaN,
               y_d |-> IF fin THEN -FMul(r, sz) + st.P1.y ELSE NaN,
               chi_d |-> IF fin THEN atan2f(cz, sz) ELSE NaN,
               dot_chi_d |-> XNeg(dot_zeta), kappa |-> ArcCurvature(st)]
         [] st.Path_Mode = 5 ->
              [dot_zeta |-> dot_zeta,
               x_d |-> IF fin THEN -FMul(r, cz) + st.P1.x ELSE NaN,
               y_d |-> IF fin THEN FMul(r, sz) + st.P1.y ELSE NaN,
               chi_d |-> IF fin THEN atan2f(-cz, sz) ELSE NaN,
               dot_chi_d |-> dot_zeta, kappa |-> ArcCurvature(st)]
         [] st.Path_Mode = 6 ->
              [dot_zeta |-> dot_zeta,
               x_d |-> 2 * FMul(r, sz) + st.P1.x,
               y_d |-> FMul(r, sinf(2 * z)) + st.P1.y,
               chi_d |-> atan2f(-cosf(2 * z), cz),
               dot_chi_d |-> XNeg(XDiv(XMul(dot_zeta, FMul(sz, q6)),
                                       4 * FMul(FMul(sz, sz), FMul(sz, sz))
                                          - 5 * FMul(sz, sz) + 2 * One)),
               kappa |-> XNeg(FDiv(FMul(FAbs(sz), q6), 2 * FMul(r, Pow15(w6))))]

\* waypoint pairs of a segment: (0,0)-(0,0), 100 m due east, and from (30,40) to (0,100)
LocE == Loc(0, 100)
SegmentEnds == {<<LocA, LocA>>, <<LocA, LocE>>, <<LocB, LocE>>}

\* arc lengths s [m], also negative and beyond the end of the segment
ArcLengths == {-3000, 0, 5000, 12000}

\* one call of TLAB_generate_2D_Path in a cycle without a change of the waypoint index:
\* the primitive of the flight plan (Path_Mode 1 and 2 are selected by no flight plan
\* and are evaluated as "switch (Path_Mode)" evaluates them), the endpoints of a
\* waypoint pair, the arc length s, zeta of the cycle before and the interval dt
GeneratePath ==
    /\ \E m \in 0 .. 6, ends \in SegmentEnds, sIn \in ArcLengths, zeta_prev \in {0, 50},
          dt \in {0, One} :
       /\ \/ m \in {0, 1, 2}
          \/ TPARAM.Flight_Plan = 1 /\ m = 5
          \/ TPARAM.Flight_Plan = 2 /\ m = 6
          \/ TPARAM.Flight_Plan = 3 /\ m = 3
          \/ TPARAM.Flight_Plan = 4 /\ m = 4
       /\ \E cmd \in {[i_prev |-> 2, i_now |-> 2, prev |-> ends[1], next |-> ends[2],
                       origin |-> LocA]} :
          \E st0 \in {DefineEndpoints(
                         [Path_Mode |-> m, s |-> sIn, zeta |-> zeta_prev, P0 |-> Vec(0, 0),
                          P1 |-> Vec(0, 0), dist_WPs |-> 0, change_path_flag |-> FALSE,
                          i_zeta |-> 0, s_calc |-> 0,
                          switched |-> FALSE, div0 |-> FALSE, hung |-> FALSE],
                         cmd, ends[1], ends[2])} :
          \E st1 \in {TLAB_generate_2D_Path(st0, cmd, TPARAM.Flight_Plan)} :
             geo' = IF st1.hung THEN [kind |-> "hung"]
                    ELSE [kind |-> "path", Path_Mode |-> st1.Path_Mode, s |-> st1.s,
                          zeta |-> st1.zeta, P0 |-> st1.P0, P1 |-> st1.P1,
                          dist_WPs |-> st1.dist_WPs, dt |-> dt,
                          out |-> PathOutputs(st1, zeta_prev, dt)]
    /\ UNCHANGED <<TPARAM, envVars, pathVars, obs, supVars, yawVars, thVars, memVars>>

\* ------------------------------------------ lookahead law (TPARAM_switch_mo == 4)
\* sqn(x)
sqn(x) == IF x < 0 THEN -1 ELSE IF x > 0 THEN 1 ELSE 0

\* atanf of a float that may be +-inf or NaN
atanf(x) ==
    IF x = NaN THEN NaN
    ELSE IF x = PInf THEN M_PI \div 2 ELSE IF x = NInf THEN -(M_PI \div 2) ELSE atan(x)

\* sqrtf of a float: NaN below zero
sqrtf(a) == IF a = NaN \/ a < 0 THEN NaN ELSE ISqrt(a * Scale)

\* if (e < L_1) eta = constrain_float(-course - atanf(e/sqrtf(pow(L_1,2) - pow(e,2))), ..)
\* else if (e >= L_1) eta = constrain_float(-course - M_PI/2*sqn(e), -M_PI/2, M_PI/2)
\* with e = state_UAV_y, course = state_UAV_GCRS in the line trace controller and
\* e = e_r, course = e_chi in the circle trace controller; rooted tells that the square
\* root was taken and radicand is its argument
LookaheadAngle(e, course, L_1) ==
    LET radicand == FMul(L_1, L_1) - FMul(e, e)
        a == atanf(XDiv(e, sqrtf(radicand)))
    IN IF e < L_1
       THEN [rooted |-> TRUE, radicand |-> radicand,
             eta |-> constrain_float(IF a = NaN THEN NaN ELSE -course - a,
                                     -(M_PI \div 2), M_PI \div 2)]
       ELSE [rooted |-> FALSE, radicand |-> radicand,
             eta |-> constrain_float(-course - (M_PI \div 2) * sqn(e),
                                     -(M_PI \div 2), M_PI \div 2)]

\* the branch g.TPARAM_switch_mo == 4 of TLAB_Line_Trace_Controller ("line") and of
\* TLAB_Circle_Trace_Controller ("circle"), for lateral offsets e of -10 m to 10 m, course
\* errors of 0 and 0.52 rad and the lookahead distance TPARAM_L_1 = 5 m
LookaheadLaw ==
    /\ \E law \in {"line", "circle"}, e \in {-1000, -500, -300, 0, 300, 500, 1000},
          course \in {0, 52}, L_1 \in {500} :
       \E r \in {LookaheadAngle(e, course, L_1)} :
          geo' = [kind |-> "look", law |-> law, e |-> e, L_1 |-> L_1, rooted |-> r.rooted,
                  radicand |-> r.radicand, eta |-> r.eta]
    /\ UNCHANGED <<TPARAM, envVars, pathVars, obs, supVars, yawVars, thVars, memVars>>

\* flight plans 0 to 4 with the radius 1 m, and the arc of plan 1 with the radius 0
FnConfigs == {Config(p, 100, 210) : p \in 0 .. 4} \cup {Config(1, 0, 210)}

InitFn == TPARAM \in FnConfigs /\ InitVars

NextFn == GeneratePath \/ LookaheadLaw

SpecFn == InitFn /\ [][NextFn]_vars

\* ------------------------------------------------------------ properties
Ran == obs.kind = "run"
RanNext == obs'.kind = "run"

\* terminal value of zeta of the primitives that can be left
Terminal(mode) == CASE mode = 0 -> One [] mode = 3 -> M_PI [] mode = 6 -> M_4PI [] OTHER -> PInf

\* the flag is armed in this cycle: it was pending, or the index change of this cycle arms it
ArmedThisCycle == change_path_flag \/ (TLAB_CMD_index' # i_now_CMD /\ FGe(zeta, Tenth))

\* displacement of a location from the path origin, as the generator stores it
Displacement(loc) == SwapXY(location_diff(Path_Origin, loc))

\* C1: a primitive switch is performed only in a cycle in which change_path_flag
\* is armed and zeta has reached the terminal value of the active primitive
\* (1, pi, 4*pi for Path_Mode 0, 3, 6); in every other cycle the generator
\* neither changes Path_Mode nor s.
C1_SwitchOnlyAtTerminal ==
    [][RanNext =>
         /\ obs'.switched => /\ Path_Mode \in {0, 3, 6}
                             /\ ArmedThisCycle
                             /\ FGe(zeta, Terminal(Path_Mode))
         /\ (Path_Mode' # Path_Mode \/ obs'.s_gen # s) => obs'.switched]_vars

\* a switch out of the figure eight and a switch out of a straight segment were performed
C1_Witness == Ran /\ obs.switched /\ Flight_Plan = 2 /\ Path_Mode = 0 /\ i_zeta > 0

\* C2 as stated: in every flight plan 0-4 an index change while zeta < 0.1
\* redefines P0, P1 and dist_WPs from (prev_WP_loc, next_WP_loc) and changes
\* neither the flag, s nor Path_Mode.
C2_Original ==
    [][(RanNext /\ Flight_Plan \in 0 .. 4 /\ TLAB_CMD_index' # i_now_CMD /\ FLt(zeta, Tenth)) =>
         /\ P0' = SwapXY(location_diff(Path_Origin, prev_WP_loc'))
         /\ P1' = SwapXY(location_diff(Path_Origin, next_WP_loc'))
         /\ dist_WPs' = get_distance(prev_WP_loc', next_WP_loc')
         /\ change_path_flag' = change_path_flag
         /\ obs'.s_gen = s
         /\ Path_Mode' = Path_Mode]_vars

\* C2 amended: on a straight segment (Path_Mode 0) of a flight plan 0-4 an index
\* change while zeta < 0.1 redefines P1 from next_WP_loc and P0, dist_WPs from
\* prev_WP_loc (plans 0, 2, 3) or from the configured origin WP0 (plans 1, 4),
\* and changes neither the flag, s nor Path_Mode.
C2_RedefineOnStraight ==
    [][(RanNext /\ Flight_Plan \in 0 .. 4 /\ Path_Mode = 0
          /\ TLAB_CMD_index' # i_now_CMD /\ FLt(zeta, Tenth)) =>
         /\ P0' = SwapXY(location_diff(Path_Origin,
                          IF Flight_Plan \in {1, 4} THEN WP0 ELSE prev_WP_loc'))
         /\ P1' = SwapXY(location_diff(Path_Origin, next_WP_loc'))
         /\ dist_WPs' = get_distance(IF Flight_Plan \in {1, 4} THEN WP0 ELSE prev_WP_loc',
                                     next_WP_loc')
         /\ change_path_flag' = change_path_flag
         /\ obs'.s_gen = s
         /\ Path_Mode' = Path_Mode]_vars

\* the endpoints of a straight segment were redefined after some progress was undone
C2_Witness ==
    /\ Ran /\ obs.changed /\ ~obs.switched /\ Path_Mode = 0 /\ ~change_path_flag
    /\ Flight_Plan = 1 /\ P0 = Displacement(WP0) /\ P1 = Displacement(next_WP_loc)
    /\ P1 # Displacement(LocA)

\* C3 as stated: in every flight plan 0-4 and every primitive an index change
\* while zeta >= 0.1 arms change_path_flag, and an armed flag stays armed until
\* the cycle of the switch.
C3_Original ==
    [][(RanNext /\ Flight_Plan \in 0 .. 4) =>
         /\ (TLAB_CMD_index' # i_now_CMD /\ FGe(zeta, Tenth)) =>
                (change_path_flag' \/ obs'.switched)
         /\ change_path_flag => (change_path_flag' \/ obs'.switched)]_vars

\* C3 amended: in every flight plan 0-4, on a straight segment or a Lissajous
\* primitive (Path_Mode 0, 3, 6) an index change while zeta >= 0.1 arms
\* change_path_flag (a circular arc, Path_Mode 4 or 5, never arms it), and an
\* armed flag stays armed until the cycle of the switch.
C3_ArmOnLateChange ==
    [][(RanNext /\ Flight_Plan \in 0 .. 4) =>
         /\ (Path_Mode \in {0, 3, 6} /\ TLAB_CMD_index' # i_now_CMD /\ FGe(zeta, Tenth)) =>
                (change_path_flag' \/ obs'.switched)
         /\ (Path_Mode \in {4, 5} /\ ~change_path_flag) => ~change_path_flag'
         /\ change_path_flag => (change_path_flag' \/ obs'.switched)]_vars

\* the flag is pending on a Lissajous primitive that has not reached its terminal value
C3_Witness ==
    /\ Ran /\ obs.changed /\ ~obs.switched /\ change_path_flag
    /\ Path_Mode = 6 /\ FLt(zeta, M_4PI) /\ FGe(zeta, Tenth)

\* C4: at the end of every generator call that performed a switch, s = 0,
\* zeta = 0 and P0, P1 are the displacements of prev_WP_loc, next_WP_loc.
C4_SwitchResets ==
    (Ran /\ obs.switched /\ ~obs.hung) =>
        /\ obs.s_gen = 0
        /\ zeta = 0
        /\ P0 = Displacement(prev_WP_loc)
        /\ P1 = Displacement(next_WP_loc)

\* C4, for the switches the claim singles out: at the end of every generator
\* call that switched to a Lissajous primitive (Path_Mode 3 or 6), s = 0 and zeta = 0.
C4_LissajousEntryResets ==
    (Ran /\ obs.switched /\ ~obs.hung /\ Path_Mode \in {3, 6}) => (obs.s_gen = 0 /\ zeta = 0)

\* C5: in flight plan 1 (4), once Path_Mode is 5 (4), no later cycle changes
\* Path_Mode, performs a switch or lets the generator change s.
C5_ArcNeverLeft ==
    [][(RanNext /\ ((Flight_Plan = 1 /\ Path_Mode = 5) \/ (Flight_Plan = 4 /\ Path_Mode = 4))) =>
         /\ Path_Mode' = Path_Mode
         /\ ~obs'.switched
         /\ ~change_path_flag'
         /\ obs'.s_gen = s]_vars

\* more than a full turn of the arc has been flown and the waypoint index changed
C5_Witness ==
    /\ Ran /\ obs.changed /\ ~obs.switched /\ Flight_Plan = 1 /\ Path_Mode = 5
    /\ FGe(zeta, 2 * M_PI)

\* C6: no generator call evaluates a quotient whose divisor (dist_WPs, TPARAM_r) is zero.
C6_NoZeroDivisor == Ran => ~obs.div0

\* C7: s is never negative, and a cycle without a switch never decreases it.
C7_ArcLengthMonotone ==
    [][(RanNext /\ ~obs'.hung) =>
         /\ ~FLt(s', 0)
         /\ ~obs'.switched => ~FLt(s', s)]_vars

\* C8: the arc-length search returns on every call and never decreases i_zeta.
C8_SearchTerminates == [][~obs'.hung /\ i_zeta' >= i_zeta]_vars

SupRanNext == sup_obs'.kind = "run"
CircleText == "change to circle trace mode"
LineText == "change to line trace mode"
Emitted(o, text) == \E i \in 1 .. Len(o.msgs) : o.msgs[i] = text

\* C9: with waypoint navigation active, a supervisor call in LINE mode with the
\* trigger raised enters circle mode (1 or 2), emits the circle notification
\* once and lowers the trigger; a call with the trigger lowered neither leaves
\* LINE mode nor emits the circle notification, and a call in circle mode never
\* emits it.
C9_CircleEntryOnce ==
    [][(SupRanNext /\ TLAB_WP_nav_flag) =>
         /\ (TLAB_Control_flag = 0 /\ change_to_circle_flag) =>
                /\ TLAB_Control_flag' \in {1, 2}
                /\ sup_obs'.msgs = <<CircleText>>
                /\ ~change_to_circle_flag'
         /\ ~change_to_circle_flag =>
                /\ ~(TLAB_Control_flag = 0 /\ TLAB_Control_flag' # 0)
                /\ ~Emitted(sup_obs', CircleText)
         /\ TLAB_Control_flag # 0 => ~Emitted(sup_obs', CircleText)]_vars

\* circle mode was entered from LINE mode and the supervisor ran again without a notification
C9_Witness ==
    /\ sup_obs.kind = "run" /\ Combine_Mode_flag /\ TLAB_WP_nav_flag
    /\ TLAB_Control_flag \in {1, 2} /\ ~change_to_circle_flag /\ sup_obs.msgs = <<>>

\* the exit test of circle mode, on the values the call computes
ExitHolds ==
    /\ FAbs(Int_theta) > 2 * M_PI * orbit_num
    /\ state_UAV_x' > 0
    /\ FAbs(state_UAV_y') < change_y

ModeCrossed == SupRanNext /\ ((TLAB_Control_flag = 0) # (TLAB_Control_flag' = 0))

InitRanNext == init_TLAB_Controller_flag /\ ~init_TLAB_Controller_flag'

\* the supervisor's two events: the trigger in line mode, the exit test in circle mode
TriggerEvent == TLAB_Control_flag = 0 /\ change_to_circle_flag
ExitEvent == TLAB_Control_flag # 0 /\ ExitHolds

\* C12 as stated: TLAB_Control_flag changes only in init_TLAB_Controller and in
\* TLAB_Combine_Controller, never in a call of the line trace, circle trace, 2D trace or
\* constant output controller, and in the supervisor only on the LINE->CIRCLE trigger or
\* the orbit-count exit
C12_Original ==
    [][TLAB_Control_flag' # TLAB_Control_flag =>
          \/ InitRanNext
          \/ SupRanNext /\ (TriggerEvent \/ ExitEvent)]_vars

\* C12 amended: as stated, except that the supervisor also changes the mode, to LINE,
\* in any call made while waypoint navigation is inactive
C12_ModeWrittenBySupervisorOnly ==
    [][TLAB_Control_flag' # TLAB_Control_flag =>
          \/ InitRanNext
          \/ SupRanNext /\ TLAB_WP_nav_flag /\ (TriggerEvent \/ ExitEvent)
          \/ SupRanNext /\ ~TLAB_WP_nav_flag /\ TLAB_Control_flag' = 0]_vars

\* the line trace controller was called in a circle mode and left the mode alone
C12_Witness ==
    /\ sup_obs.kind = "yaw" /\ sup_obs.law = "line" /\ TLAB_Control_flag \in {1, 2}

\* C13: after every call of calc_nav_yaw_coordinated steering_control.rudder lies in
\* [-4500, 4500] centidegrees, for every TPARAM_Bar_Control_Mode and every controller
\* output, including a constant output that does not fit in 16 bits
C13_RudderInRange == rudder >= -4500 /\ rudder <= 4500

\* the constant output was 40000 cdeg, beyond int16_t, and the rudder is at a limit
C13_Witness ==
    /\ sup_obs.kind = "yaw" /\ sup_obs.law = "constant" /\ TLAB_Constant_Output > 32767
    /\ rudder \in {-4500, 4500}

\* C14: after every cycle of calc_throttle the throttle command lies in
\* [0, TPARAM_MAX_slo], and it is exactly 0 when the thrust of the cycle is below the
\* cutoff 0.3256 N, whatever the altitude law and the inputs
C14_ThrottleInRange ==
    th_obs.kind = "run" =>
        /\ throttle >= 0 /\ throttle <= TPARAM.MAX_slo
        /\ (Th.motor_Th_N * 100 < 3256 => throttle = 0)

\* a cycle above the cutoff whose square root exceeds the limit and is cut to it
C14_Witness ==
    /\ th_obs.kind = "run" /\ Th.motor_Th_N * 100 >= 3256
    /\ \E value \in ThrustRoot(Th.motor_Th_N) : value > TPARAM.MAX_slo
    /\ throttle = TPARAM.MAX_slo /\ TPARAM.MAX_slo > 0

\* a call of TLAB_Throttle_Controller whose time delta is zero: the first call, or a
\* reading equal to the one stored by the call before
ZeroDeltaCall == Th' # Th /\ (Th.firsttime_Th \/ Th'.prev_time_Th = Th.prev_time_Th)

\* C15: a cycle of TLAB_Throttle_Controller with a zero time delta (the first call
\* included) adds exactly one to err_count, divides nothing by the delta and leaves dz
\* and speed_pitch as they were; a cycle with a non-zero delta leaves err_count as it was
C15_ZeroDeltaCounted ==
    [][(ZeroDeltaCall =>
            /\ Th'.err_count = Th.err_count + 1 /\ ~th_obs'.divided
            /\ Th'.dz = Th.dz /\ Th'.speed_pitch = Th.speed_pitch)
       /\ (Th' # Th /\ ~ZeroDeltaCall =>
            Th'.err_count = Th.err_count /\ th_obs'.divided)]_vars

\* a repeated reading after the first call, with a non-zero estimate dz held
C15_Witness ==
    /\ th_obs.kind = "run" /\ ~th_obs.first /\ ~th_obs.divided
    /\ Th.dz # 0 /\ Th.err_count >= 2

\* C16: a cycle of TLAB_Throttle_Controller whose clock reading is smaller than the
\* reading of the cycle before is handled like a zero delta: dz and speed_pitch are held
\* and err_count is incremented
C16_BackwardClockHeld ==
    [][(Th' # Th /\ ~Th.firsttime_Th /\ Th'.prev_time_Th < Th.prev_time_Th) =>
            /\ Th'.err_count = Th.err_count + 1
            /\ Th'.dz = Th.dz /\ Th'.speed_pitch = Th.speed_pitch]_vars

\* C17: with a law selector outside 1..6, or with coinciding bounds d1_Th = d2_Th of
\* the fuzzy PD law, the thrust of the cycle is the thrust of the plain PD law
C17_FallsBackToPD ==
    (th_obs.kind = "run" /\ (TPARAM.cha_pow \notin 1 .. 6 \/ Th.d1_Th = Th.d2_Th)) =>
        Th.motor_Th_N = th_obs.pd

IsOne(q) == q.d > 0 /\ q.n = q.d
IsZero(q) == q.d > 0 /\ q.n = 0
In01(q) == q.d > 0 /\ q.n >= 0 /\ q.n <= q.d

\* C18: after the membership computation of a cycle of TLAB_2D_Trace_Controller, with
\* z1_max # z1_min and z2_max # z2_min and a number z1 (exact arithmetic), K1, K2, M1, M2
\* lie in [0,1], K1 + K2 = 1, M1 + M2 = 1 and h_chi[0..3] sum to exactly 1, whether z1
\* and z2 are inside or outside their ranges
C18_LateralPartition ==
    (mem.kind = "lateral" /\ z1_max # z1_min /\ z2_max # z2_min /\ mem.in[2].z # NaN) =>
        /\ \A i \in 1 .. 2 : In01(mem.pairs[i][1]) /\ In01(mem.pairs[i][2])
                              /\ IsOne(RatAdd(mem.pairs[i][1], mem.pairs[i][2]))
        /\ IsOne(SumRat(mem.h, 1))

\* z2 strictly inside its range and z1 above z1_max: K1, K2 in (0,1), M cut to (1,0)
C18_Witness ==
    /\ mem.kind = "lateral" /\ z1_max # z1_min /\ z2_max # z2_min
    /\ mem.in[1].z > z2_min /\ mem.in[1].z < z2_max
    /\ mem.pairs[1][1].n > 0 /\ mem.pairs[1][2].n > 0
    /\ mem.in[2].z # NaN /\ mem.in[2].z > z1_max
    /\ IsOne(mem.pairs[2][1]) /\ IsZero(mem.pairs[2][2])
    /\ IsOne(SumRat(mem.h, 1))

\* C19: the eight weights of the LMI law lie in [0,1] and sum to 1 for every z1, z2, z3
\* and every table; the two weights h_Th and the four weights h_mem sum to 1
C19_WeightsSumToOne ==
    (mem.kind \in {"lmi", "pd", "fuzzy"}) =>
        /\ IsOne(SumRat(mem.h, 1))
        /\ (mem.kind = "lmi" => \A i \in 1 .. 8 : In01(mem.h[i]))

\* C20: for the pairs mem_M, mem_N, mem_L, h_Th, K1/K2 and M1/M2, an input at the
\* configured min or max gives exactly (1,0) or (0,1), and an input strictly between
\* them gives a pair of sum exactly 1
C20_BoundaryValues ==
    (mem.kind \in {"lmi", "pd", "lateral"}) =>
        \A i \in DOMAIN mem.pairs :
            mem.in[i].z # NaN =>
                /\ (mem.in[i].z = mem.in[i].lo \/ mem.in[i].z = mem.in[i].hi) =>
                        \/ IsOne(mem.pairs[i][1]) /\ IsZero(mem.pairs[i][2])
                        \/ IsZero(mem.pairs[i][1]) /\ IsOne(mem.pairs[i][2])
                /\ (mem.in[i].lo < mem.in[i].z /\ mem.in[i].z < mem.in[i].hi) =>
                        IsOne(RatAdd(mem.pairs[i][1], mem.pairs[i][2]))

\* C21: in a cycle of TLAB_2D_Trace_Controller with chiF = 0 the pair is K1 = 1, K2 = 0
\* and the quotient v_g*sinf(chiF)/chiF has not been formed with the zero divisor (z2
\* does not hold the result 0/0)
C21_ZeroHeadingNoDivision ==
    (mem.kind = "lateral" /\ mem.chiF = 0) =>
        /\ IsOne(mem.pairs[1][1]) /\ IsZero(mem.pairs[1][2])
        /\ mem.in[1].z # NaN

\* C22: for the straight segment (Path_Mode 0) TLAB_generate_2D_Path yields
\* zeta = s/dist_WPs, (x_d, y_d) = (1 - zeta)*P0 + zeta*P1, chi_d = the course from P0 to
\* P1 (-atan2f of the y and x differences, the angle convention of chi), dot_chi_d = 0
\* and kappa = 0 for every s; P0 = (0,0), P1 = (100,0), s = 50 gives zeta = 0.5 and (50,0)
C22_StraightSegment ==
    (geo.kind = "path" /\ geo.Path_Mode = 0) =>
        /\ geo.zeta = FDiv(geo.s, geo.dist_WPs)
        /\ IsFinite(geo.zeta) =>
              /\ geo.out.x_d = FMul(One - geo.zeta, geo.P0.x) + FMul(geo.zeta, geo.P1.x)
              /\ geo.out.y_d = FMul(One - geo.zeta, geo.P0.y) + FMul(geo.zeta, geo.P1.y)
        /\ geo.out.chi_d = -atan2f(geo.P1.y - geo.P0.y, geo.P1.x - geo.P0.x)
        /\ geo.out.dot_chi_d = 0
        /\ geo.out.kappa = 0
        /\ (geo.P0 = Vec(0, 0) /\ geo.P1 = Vec(100 * Scale, 0) /\ geo.s = 50 * Scale) =>
              /\ geo.zeta = One \div 2
              /\ geo.out.x_d = 50 * Scale /\ geo.out.y_d = 0 /\ geo.out.chi_d = 0

\* the segment from (0,0) to (100,0) at s = 50: the desired position is (50,0)
C22_Witness ==
    /\ geo.kind = "path" /\ geo.Path_Mode = 0
    /\ geo.P0 = Vec(0, 0) /\ geo.P1 = Vec(100 * Scale, 0) /\ geo.dist_WPs = 100 * Scale
    /\ geo.s = 50 * Scale
    /\ geo.out.x_d = 50 * Scale /\ geo.out.y_d = 0 /\ geo.out.kappa = 0

\* C23: on a circular arc the curvature is 2/dist_WPs (Path_Mode 1, 2) or 1/TPARAM_r
\* (Path_Mode 4, 5), and two successive evaluations of the same arc give the same
\* curvature whatever s is
C23_ArcCurvatureConstant ==
    [][(geo'.kind = "path" /\ geo'.Path_Mode \in {1, 2, 4, 5}) =>
          /\ geo'.Path_Mode \in {1, 2} => geo'.out.kappa = FDiv(2 * One, geo'.dist_WPs)
          /\ geo'.Path_Mode \in {4, 5} => geo'.out.kappa = FDiv(One, TPARAM.r)
          /\ (geo.kind = "path" /\ geo.Path_Mode = geo'.Path_Mode
                /\ geo.dist_WPs = geo'.dist_WPs) => geo'.out.kappa = geo.out.kappa]_vars

\* the right-turn arc of radius 1 m at s = 120 m: zeta = 120 rad, kappa = 1 per metre
C23_Witness ==
    /\ geo.kind = "path" /\ geo.Path_Mode = 5 /\ TPARAM.r = One
    /\ geo.s = 120 * Scale /\ geo.zeta = 120 * Scale
    /\ geo.out.kappa = One

\* C30: in the lookahead law the argument of sqrtf(L_1^2 - e^2) is positive whenever the
\* square root is taken
C30_RadicandPositive ==
    (geo.kind = "look" /\ geo.rooted) => geo.radicand > 0

\* the forward sum of |dP/dzeta|*dzeta over the grid indices 0 .. i, each counted once
RECURSIVE ArcSum(_)
ArcSum(i) ==
    IF i < 0 THEN 0 ELSE ArcSum(i - 1) + FMul(dPdzeta(i), TPARAM.dzeta)

\* C24: after every call of the arc-length search of a Lissajous primitive, s_calc is
\* the forward sum over the grid indices 0 .. i_zeta with each index counted once,
\* zeta = i_zeta*dzeta is the smallest grid parameter whose sum reaches s, and a call
\* with the same s as the call before changes neither s_calc nor i_zeta
C24_ForwardSumOnce ==
    [][(RanNext /\ ~obs'.hung /\ Path_Mode' \in {3, 6}) =>
          /\ s_calc' = ArcSum(i_zeta')
          /\ zeta' = i_zeta' * TPARAM.dzeta
          /\ FGe(ArcSum(i_zeta'), obs'.s_gen)
          /\ i_zeta' > 0 => FLt(ArcSum(i_zeta' - 1), obs'.s_gen)
          /\ (Ran /\ Path_Mode = Path_Mode' /\ ~obs'.switched /\ obs'.s_gen = obs.s_gen) =>
                (s_calc' = s_calc /\ i_zeta' = i_zeta)]_vars

\* C26: at the end of every cycle in which the generator performed a primitive switch,
\* change_path_flag is false
C26_FlagClearedAfterSwitch ==
    (Ran /\ obs.switched /\ ~obs.hung) => ~change_path_flag

\* the primitives a flight plan may select
AllowedModes(plan) ==
    CASE plan = 0 -> {0}
      [] plan = 1 -> {0, 5}
      [] plan = 2 -> {0, 6}
      [] plan = 3 -> {0, 3}
      [] plan = 4 -> {0, 4}
      [] OTHER -> {0}

\* C28: Path_Mode always belongs to the set of the configured flight plan (so it is
\* never 1 or 2), and Path_Mode 6 or 3 is entered only by a switch performed while the
\* waypoint index is 3
C28_ModeAllowedByPlan ==
    [][/\ Path_Mode' \in AllowedModes(TPARAM.Flight_Plan)
       /\ (Path_Mode' \in {3, 6} /\ Path_Mode' # Path_Mode) =>
             (RanNext /\ obs'.switched /\ TLAB_CMD_index' = 3)]_vars

\* flight plan 3 has switched into the Lissajous primitive with the waypoint index 3
C28_Witness ==
    /\ Ran /\ obs.switched /\ ~obs.hung
    /\ TPARAM.Flight_Plan = 3 /\ Path_Mode = 3 /\ TLAB_CMD_index = 3

\* C29: the first call of the 2D trace controller initialises and leaves s = 0 and the
\* rudder 0, and in every later cycle that runs the path generator the interval between
\* the clock reading of the cycle and the reading of the cycle before is not zero
C29_IntervalNonZero ==
    [][/\ obs'.kind = "init" => (s' = 0 /\ zeta' = 0 /\ rudder' = 0)
       /\ (RanNext /\ ~obs'.hung) =>
             TDiv(((clock' - t_now) % ClockModulus) * Scale, 1000000) # 0]_vars

C25_InitBeforeRun ==
    Ran => /\ Fx = TPARAM.Fx
           /\ Flight_Plan = TPARAM.Flight_Plan

====
